---- MODULE Spec2Model ----
(***************************************************************************)
(* Advertisement discovery and normalisation pipeline of the vehicle       *)
(* comparison backend: the deduplicating store                             *)
(* (GeminiVehicleAnalysisCrew._store_ads_in_database_safe over ad_crud),   *)
(* the batch runners (sync thread pool, asyncio.gather) and the hybrid     *)
(* fallback of AIFriendlyAdDetailsExtractor.                               *)
(*                                                                         *)
(* Python strings the code inspects (substring tests, lower()) are         *)
(* sequences of one-character strings; opaque strings (prices, locations,  *)
(* links) are TLA+ strings.                                                *)
(***************************************************************************)
EXTENDS Integers, Sequences, FiniteSets, TLC

VARIABLES
    table,        \* the committed rows of the ads table
    nextId,       \* the next value of the autoincrement primary key
    nextSession,  \* number of uuid4 session ids drawn so far
    writer,       \* per crew instance: its run of _store_ads_in_database_safe
    lastOutcome,  \* the outcome of the record processed last (Created, ...)
    lastReturned, \* what the run that finished last returned
    createdCount, \* per link, the number of Created outcomes so far
    dbErrors,     \* number of database errors (other than uniqueness) injected
    b_pc,         \* batch runner: idle, collecting, sequential, gathering, shutdown, returned
    b_mode,       \* batch runner: parallel (thread pool), sequential or async (gather)
    b_urls,       \* batch runner: the urls, each with what fetching it does
    b_fut,        \* batch runner: per url, the state of its future (task)
    b_results,    \* batch runner: the results list
    b_out,        \* batch runner: what the call gave its caller
    b_timedOut,   \* batch runner: as_completed raised TimeoutError
    b_inflight,   \* batch runner: the futures unfinished when the timeout struck
    h_pc,         \* extractor: idle, real (real extraction done), done
    h_mode,       \* extractor: the mode of the call (real, mock, hybrid)
    h_urls,       \* extractor: the url list, each url with the page behind it
    h_filter,     \* extractor: filter_sales_only
    h_real,       \* extractor: the ExtractionResult of _extract_real_data
    h_result,     \* extractor: the ExtractionResult returned
    g_pc,         \* simple extractor: idle, done
    g_in,         \* simple extractor: url list, vehicle_name, use_mock and the random draws
    g_out,        \* simple extractor: the response of _run
    n_pc,         \* crew pipeline: idle, normalized, converted, stored
    n_in,         \* crew pipeline: the extracted records handed to the crew
    n_out,        \* crew pipeline: the normalized ads, the API ads and the rows
    e_pc,         \* extraction engines: idle, done
    e_in,         \* extraction engines: the engine and the url with what fetching it does
    e_out,        \* extraction engines: the record returned, or the exception raised
    s_pc,         \* record scorers: idle, done
    s_in,         \* record scorers: the record scored
    s_out,        \* record scorers: confidence and tier of each scorer
    k_pc,         \* classifiers: idle, done
    k_in,         \* classifiers: the url (or title) classified, with the page behind it
    k_out,        \* classifiers: the verdict
    f_pc,         \* discovery: idle, searched, filtered, done
    f_in,         \* discovery: vehicle_name, the search pages and the random draws
    f_out,        \* discovery: the urls found, filtered and returned
    m_pc,         \* mileage heuristic: idle, done
    m_in,         \* mileage heuristic: the raw mileage text
    m_out,        \* mileage heuristic: what each implementation returns
    r_pc,         \* field normalizer: idle, once, twice
    r_in,         \* field normalizer: the raw ad
    r_out,        \* field normalizer: the output of one and of two applications
    p_pc,         \* url parser: idle, done
    p_in,         \* url parser: the text given to _parse_urls
    p_out,        \* url parser: the list of each implementation
    o_pc,         \* task outputs: idle, done
    o_in,         \* task outputs: the raw outputs of the crew's tasks
    o_out,        \* task outputs: vehicle1_ads, vehicle2_ads, comparison_report
    d_pc,         \* analysis runs: idle, parsed, stored
    d_in,         \* analysis runs: the vehicles and extracted ads of the current run
    d_out,        \* analysis runs: the response of the current run
    d_table,      \* analysis runs: the rows of the ads table
    d_runs        \* analysis runs: number of runs started

storeVars == <<table, nextId, nextSession, writer, lastOutcome, lastReturned,
               createdCount, dbErrors>>

batchVars == <<b_pc, b_mode, b_urls, b_fut, b_results, b_out, b_timedOut, b_inflight>>

hybridVars == <<h_pc, h_mode, h_urls, h_filter, h_real, h_result>>

simpleVars == <<g_pc, g_in, g_out>>

pipeVars == <<n_pc, n_in, n_out>>

engineVars == <<e_pc, e_in, e_out>>

scorerVars == <<s_pc, s_in, s_out>>

classVars == <<k_pc, k_in, k_out>>

findVars == <<f_pc, f_in, f_out>>

mileageVars == <<m_pc, m_in, m_out>>

normVars == <<r_pc, r_in, r_out>>

parseVars == <<p_pc, p_in, p_out>>

outputVars == <<o_pc, o_in, o_out>>

runVars == <<d_pc, d_in, d_out, d_table, d_runs>>

crewVars == <<findVars, mileageVars, normVars, parseVars, outputVars, runVars>>

toolVars == <<simpleVars, pipeVars, engineVars, scorerVars, classVars>>

vars == <<storeVars, batchVars, hybridVars, toolVars, crewVars>>

----------------------------------------------------------------------------
(* Bounds of the model *)

NumWriters == 2
MaxRuns == 2
MaxAdsPerVehicle == 1
MaxDbErrors == 1

Writers == 1..NumWriters

----------------------------------------------------------------------------
(* Strings as character sequences *)

UpperAlpha == <<"A","B","C","D","E","F","G","H","I","J","K","L","M",
                "N","O","P","Q","R","S","T","U","V","W","X","Y","Z">>
LowerAlpha == <<"a","b","c","d","e","f","g","h","i","j","k","l","m",
                "n","o","p","q","r","s","t","u","v","w","x","y","z">>

\* str.lower() on one character
LowerChar(c) ==
    IF \E k \in 1..26 : UpperAlpha[k] = c
    THEN LowerAlpha[CHOOSE k \in 1..26 : UpperAlpha[k] = c]
    ELSE c

\* str.lower()
Lower(s) == [k \in 1..Len(s) |-> LowerChar(s[k])]

\* Python's `sub in s`
Contains(sub, s) ==
    \E k \in 0..(Len(s) - Len(sub)) : SubSeq(s, k + 1, k + Len(sub)) = sub

\* SQL's  column ILIKE '%pattern%'
ILikeContains(column, pattern) == Contains(Lower(pattern), Lower(column))

S_aqua == <<"a","q","u","a">>
S_fit == <<"f","i","t">>

V_Aqua == <<"A","q","u","a">>
V_Fit == <<"F","i","t">>

T_AquaG == <<"A","q","u","a"," ","G">>
T_FitGP == <<"F","i","t"," ","G","P">>
T_Car == <<"C","a","r">>

NotFoundT == <<"N","o","t"," ","F","o","u","n","d">>

----------------------------------------------------------------------------
(* Deduplicating store *)

\* The six-key dictionaries _normalize_ad_data builds; _parse_and_validate_ads
\* hands lists of them to the store.  Ad2 has Ad1's link and other fields,
\* Ad4's title names no vehicle and its url is empty.
Ad1 == [ad_title |-> T_AquaG, price_lkr |-> "4,250,000", location |-> "Colombo",
        mileage_km |-> "80,000 km", year |-> "2015", url |-> "L1"]
Ad2 == [ad_title |-> T_FitGP, price_lkr |-> "3,900,000", location |-> "Kandy",
        mileage_km |-> "60,000 km", year |-> "2014", url |-> "L1"]
Ad3 == [ad_title |-> T_FitGP, price_lkr |-> "3,900,000", location |-> "Kandy",
        mileage_km |-> "60,000 km", year |-> "2014", url |-> "L2"]
Ad4 == [ad_title |-> T_Car, price_lkr |-> "Not Found", location |-> "Galle",
        mileage_km |-> "Not Found", year |-> "Not Found", url |-> ""]

AdPool == {Ad1, Ad2, Ad3, Ad4}

\* (vehicle1, vehicle2) of a crew instance
VehiclePairs == {<<V_Aqua, V_Fit>>, <<V_Fit, V_Aqua>>}

\* the lists of at most MaxAdsPerVehicle validated ads of one vehicle
AdLists == UNION {[1..n -> AdPool] : n \in 0..MaxAdsPerVehicle}

\* dict.get(key, default); a missing key without default gives None, which
\* is written as the empty value of the key's type (the code only tests it
\* for truth)
DictGet(d, key, default) == IF key \in DOMAIN d THEN d[key] ELSE default

\* ad.get("URL") or ad.get("url")
AdUrl(ad) ==
    IF DictGet(ad, "URL", "") # "" THEN DictGet(ad, "URL", "")
    ELSE DictGet(ad, "url", "")

\* the ad_data dictionary of one record
AdData(ad) ==
    [title |-> DictGet(ad, "ad_title", NotFoundT),
     price |-> DictGet(ad, "price_lkr", "Not Found"),
     location |-> DictGet(ad, "location", "Not Found"),
     mileage |-> DictGet(ad, "mileage_km", "Not Found"),
     year |-> DictGet(ad, "year", "Not Found"),
     link |-> AdUrl(ad)]

\* the vehicle name a record is stored under
DetermineVehicleName(ad, vehicle1, vehicle2) ==
    IF DictGet(ad, "vehicle_name", <<>>) # <<>>
    THEN DictGet(ad, "vehicle_name", <<>>)
    ELSE LET t == IF DictGet(ad, "Ad Title", <<>>) # <<>>
                  THEN DictGet(ad, "Ad Title", <<>>)
                  ELSE DictGet(ad, "ad_title", <<>>)
             title_lower == Lower(t)
         IN  IF Contains(S_aqua, title_lower) \/ Contains(Lower(vehicle1), title_lower)
             THEN vehicle1
             ELSE IF Contains(S_fit, title_lower) \/ Contains(Lower(vehicle2), title_lower)
                  THEN vehicle2
                  ELSE vehicle1

\* db.query(Ad).filter(Ad.link == link).first(): the rows found (none or one)
GetExistingAdByLink(tbl, link) == {r \in tbl : r.link = link}

\* mutant: the link column without its unique constraint
NoUniqueConstraint(tbl, row) == FALSE

\* link = Column(String, unique=True): the insert of row would break it
UniqueLinkViolated(tbl, row) == \E r \in tbl : r.link = row.link

\* mutant: create_ad merging the record into the row that has its link
CreateAdMerge(tbl, id, ad_data, analysis_session_id, vehicle_name) ==
    LET row == [id |-> id, title |-> ad_data.title, price |-> ad_data.price,
                location |-> ad_data.location, mileage |-> ad_data.mileage,
                year |-> ad_data.year, link |-> ad_data.link,
                analysis_session_id |-> analysis_session_id,
                vehicle_name |-> vehicle_name]
    IN  [exc |-> "none",
         table |-> {r \in tbl : r.link # row.link} \cup {row},
         row |-> row]

\* create_ad: tag the record, add it and commit.  The commit either makes the
\* row part of the table or raises IntegrityError and leaves the table alone.
CreateAd(tbl, id, ad_data, analysis_session_id, vehicle_name) ==
    LET row == [id |-> id,
                title |-> ad_data.title,
                price |-> ad_data.price,
                location |-> ad_data.location,
                mileage |-> ad_data.mileage,
                year |-> ad_data.year,
                link |-> ad_data.link,
                analysis_session_id |->
                    IF analysis_session_id # 0 THEN analysis_session_id ELSE 0,
                vehicle_name |->
                    IF vehicle_name # <<>> THEN vehicle_name ELSE <<>>]
    IN  IF UniqueLinkViolated(tbl, row)
        THEN [exc |-> "IntegrityError", table |-> tbl, row |-> row]
        ELSE [exc |-> "none", table |-> tbl \cup {row}, row |-> row]

\* mutant: the SQLAlchemyError clause placed before the IntegrityError clause
ExceptClauseSwapped(exc) == "failed"

\* which except clause of the per-record try handles an exception
ExceptClause(exc) ==
    CASE exc = "IntegrityError" -> "duplicate"
      [] exc = "SQLAlchemyError" -> "failed"
      [] OTHER -> "failed"

\* mutant: an except clause that leaves the loop
AfterExceptBreak(i, n) == n + 1

\* the index the loop goes on with after an except clause has run
AfterExcept(i, n) == i + 1

\* get_ads_by_session_id
GetAdsBySessionId(tbl, sid) == {r \in tbl : r.analysis_session_id = sid}

\* get_ads_by_vehicle_and_session
GetAdsByVehicleAndSession(tbl, vehicle_name, sid) ==
    {r \in tbl : ILikeContains(r.vehicle_name, vehicle_name)
                 /\ r.analysis_session_id = sid}

\* db.commit(): what is left uncommitted in the session afterwards
SessionCommit(uncommitted) == {}

\* db.rollback(): the rows the session has not committed leave the table
SessionRollback(tbl, uncommitted) == tbl \ uncommitted

IdleWriter ==
    [pc |-> "idle", v1 |-> <<>>, v2 |-> <<>>, sid |-> 0, batch |-> <<>>,
     i |-> 0, stored |-> <<>>, dups |-> <<>>, failed |-> <<>>,
     uncommitted |-> {}]

Links == {AdUrl(ad) : ad \in AdPool} \ {""}

NoOutcome ==
    [sid |-> 0, idx |-> 0, link |-> "", outcome |-> "none", via |-> "none",
     seedName |-> <<>>, ad_data |-> AdData(Ad1)]

Returned(sid, stored, dups, failed, n, skipped) ==
    [sid |-> sid, stored |-> stored, dups |-> dups, failed |-> failed,
     n |-> n, skipped |-> skipped]

NoReturned == Returned(0, <<>>, <<>>, <<>>, 0, 0)

StoreInit ==
    /\ table = {}
    /\ nextId = 1
    /\ nextSession = 0
    /\ writer = [w \in Writers |-> IdleWriter]
    /\ lastOutcome = NoOutcome
    /\ lastReturned = NoReturned
    /\ createdCount = [l \in Links |-> 0]
    /\ dbErrors = 0

\* vehicle1_ads + vehicle2_ads, each entry remembering the list it came from
TagList(ads, seed) == [k \in 1..Len(ads) |-> [ad |-> ads[k], seed |-> seed]]

SeedName(w, seed) == IF seed = 1 THEN writer[w].v1 ELSE writer[w].v2

Outcome(w, what, via) ==
    [sid |-> writer[w].sid, idx |-> writer[w].i,
     link |-> AdUrl(writer[w].batch[writer[w].i].ad),
     outcome |-> what, via |-> via,
     seedName |-> SeedName(w, writer[w].batch[writer[w].i].seed),
     ad_data |-> AdData(writer[w].batch[writer[w].i].ad)]

\* _parse_crew_result_with_comparison draws the session id and calls
\* _store_ads_in_database_safe(vehicle1_ads + vehicle2_ads, session id);
\* an empty list returns [] at once.
StartRun(w) ==
    /\ writer[w].pc = "idle"
    /\ nextSession < MaxRuns
    /\ \E pair \in VehiclePairs, vehicle1_ads \in AdLists, vehicle2_ads \in AdLists :
         LET ads_data == TagList(vehicle1_ads, 1) \o TagList(vehicle2_ads, 2)
             sid == nextSession + 1
         IN  /\ nextSession' = sid
             /\ IF ads_data = <<>>
                THEN /\ lastReturned' = Returned(sid, <<>>, <<>>, <<>>, 0, 0)
                     /\ UNCHANGED writer
                ELSE /\ writer' = [writer EXCEPT ![w] =
                            [pc |-> "loop", v1 |-> pair[1], v2 |-> pair[2],
                             sid |-> sid, batch |-> ads_data, i |-> 1,
                             stored |-> <<>>, dups |-> <<>>, failed |-> <<>>,
                             uncommitted |-> {}]]
                     /\ UNCHANGED lastReturned
    /\ UNCHANGED <<table, nextId, lastOutcome, createdCount, dbErrors>>
    /\ UNCHANGED <<batchVars, hybridVars, toolVars, crewVars>>

InLoop(w) == writer[w].pc = "loop" /\ writer[w].i <= Len(writer[w].batch)

CurrentAd(w) == writer[w].batch[writer[w].i].ad

\* a record without url is skipped
SkipInvalid(w) ==
    /\ InLoop(w)
    /\ AdUrl(CurrentAd(w)) = ""
    /\ lastOutcome' = Outcome(w, "Skipped", "url")
    /\ writer' = [writer EXCEPT ![w].i = @ + 1]
    /\ UNCHANGED <<table, nextId, nextSession, lastReturned, createdCount, dbErrors>>
    /\ UNCHANGED <<batchVars, hybridVars, toolVars, crewVars>>

\* the link is found: the record is a duplicate and nothing is written
LookupDuplicate(w) ==
    /\ InLoop(w)
    /\ AdUrl(CurrentAd(w)) # ""
    /\ GetExistingAdByLink(table, AdData(CurrentAd(w)).link) # {}
    /\ lastOutcome' = Outcome(w, "Duplicate", "lookup")
    /\ writer' = [writer EXCEPT ![w].i = @ + 1,
                                ![w].dups = Append(@, AdData(CurrentAd(w)).link)]
    /\ UNCHANGED <<table, nextId, nextSession, lastReturned, createdCount, dbErrors>>
    /\ UNCHANGED <<batchVars, hybridVars, toolVars, crewVars>>

\* the link is not found: the writer goes on to create_ad
LookupMiss(w) ==
    /\ InLoop(w)
    /\ AdUrl(CurrentAd(w)) # ""
    /\ GetExistingAdByLink(table, AdData(CurrentAd(w)).link) = {}
    /\ writer' = [writer EXCEPT ![w].pc = "insert"]
    /\ UNCHANGED <<table, nextId, nextSession, lastOutcome, lastReturned,
                   createdCount, dbErrors>>
    /\ UNCHANGED <<batchVars, hybridVars, toolVars, crewVars>>

Created(w) ==
    CreateAd(table, nextId, AdData(CurrentAd(w)), writer[w].sid,
             DetermineVehicleName(CurrentAd(w), writer[w].v1, writer[w].v2))

\* create_ad commits the row
InsertCreated(w) ==
    /\ writer[w].pc = "insert"
    /\ Created(w).exc = "none"
    /\ table' = Created(w).table
    /\ nextId' = nextId + 1
    /\ lastOutcome' = Outcome(w, "Created", "insert")
    /\ createdCount' = [createdCount EXCEPT ![Created(w).row.link] = @ + 1]
    /\ writer' = [writer EXCEPT
          ![w].pc = "loop", ![w].i = @ + 1,
          ![w].stored = Append(@, Created(w).row),
          ![w].uncommitted = SessionCommit(@ \cup {Created(w).row})]
    /\ UNCHANGED <<nextSession, lastReturned, dbErrors>>
    /\ UNCHANGED <<batchVars, hybridVars, toolVars, crewVars>>

\* an except clause: db.rollback(), then the link joins duplicate_ads or
\* failed_ads and the loop goes on
Handle(w, exc) ==
    /\ table' = SessionRollback(table, writer[w].uncommitted)
    /\ lastOutcome' =
          Outcome(w, IF ExceptClause(exc) = "duplicate" THEN "Duplicate" ELSE "Failed", exc)
    /\ writer' = [writer EXCEPT
          ![w].pc = "loop",
          ![w].i = AfterExcept(@, Len(writer[w].batch)),
          ![w].uncommitted = {},
          ![w].dups = IF ExceptClause(exc) = "duplicate"
                      THEN Append(@, AdData(CurrentAd(w)).link) ELSE @,
          ![w].failed = IF ExceptClause(exc) = "failed"
                        THEN Append(@, AdData(CurrentAd(w)).link) ELSE @]

\* create_ad's commit breaks the unique link: IntegrityError
InsertIntegrityError(w) ==
    /\ writer[w].pc = "insert"
    /\ Created(w).exc = "IntegrityError"
    /\ Handle(w, "IntegrityError")
    /\ UNCHANGED <<nextId, nextSession, lastReturned, createdCount, dbErrors>>
    /\ UNCHANGED <<batchVars, hybridVars, toolVars, crewVars>>

\* the database fails otherwise (locked, connection lost): nothing is committed
InsertDbError(w) ==
    /\ writer[w].pc = "insert"
    /\ dbErrors < MaxDbErrors
    /\ dbErrors' = dbErrors + 1
    /\ \E exc \in {"SQLAlchemyError", "Exception"} : Handle(w, exc)
    /\ UNCHANGED <<nextId, nextSession, lastReturned, createdCount>>
    /\ UNCHANGED <<batchVars, hybridVars, toolVars, crewVars>>

NumSkipped(batch) == Cardinality({k \in 1..Len(batch) : AdUrl(batch[k].ad) = ""})

\* the loop is over: final commit, close, return stored_ads
Finish(w) ==
    /\ writer[w].pc = "loop"
    /\ writer[w].i > Len(writer[w].batch)
    /\ lastReturned' =
          Returned(writer[w].sid, writer[w].stored, writer[w].dups,
                   writer[w].failed, Len(writer[w].batch), NumSkipped(writer[w].batch))
    /\ writer' = [writer EXCEPT ![w] = IdleWriter]
    /\ UNCHANGED <<table, nextId, nextSession, lastOutcome, createdCount, dbErrors>>
    /\ UNCHANGED <<batchVars, hybridVars, toolVars, crewVars>>

StoreNext ==
    \E w \in Writers :
        \/ StartRun(w)
        \/ SkipInvalid(w)
        \/ LookupDuplicate(w)
        \/ LookupMiss(w)
        \/ InsertCreated(w)
        \/ InsertIntegrityError(w)
        \/ InsertDbError(w)
        \/ Finish(w)

----------------------------------------------------------------------------
(* Claims about the deduplicating store *)

RowsOf(l) == {r \in table : r.link = l}

\* C1: storing the same link twice (in one batch or in successive batches)
\* gives one Created and then Duplicate: the table never holds two rows of
\* one link, a link is Created at most once, a Duplicate only follows a
\* Created of its link, and every row of a returned (or growing) stored list
\* is the table's row of its link.
C1_OneRowPerLink ==
    /\ \A l \in Links : Cardinality(RowsOf(l)) <= 1 /\ createdCount[l] <= 1
    /\ lastOutcome.outcome \in {"Created", "Duplicate"} =>
          /\ createdCount[lastOutcome.link] = 1
          /\ Cardinality(RowsOf(lastOutcome.link)) = 1
    /\ \A k \in 1..Len(lastReturned.stored) : lastReturned.stored[k] \in table
    /\ \A w \in Writers : \A k \in 1..Len(writer[w].stored) :
          writer[w].stored[k] \in table

\* a later batch stores a record identical to one an earlier batch created
C1_Witness ==
    /\ lastOutcome.outcome = "Duplicate"
    /\ lastOutcome.via = "lookup"
    /\ \E r \in table :
          /\ r.link = lastOutcome.link
          /\ r.analysis_session_id # lastOutcome.sid
          /\ r.title = lastOutcome.ad_data.title
          /\ r.price = lastOutcome.ad_data.price

\* C2: writers that all passed the find-by-link check for one link race to
\* exactly one Created: a uniqueness violation at insert is counted as
\* Duplicate, never as Failed, and leaves exactly one row of the link; an
\* insert of a link no row has is never refused by the constraint.
C2_RaceYieldsOneCreated ==
    /\ \A l \in Links : Cardinality(RowsOf(l)) <= 1
    /\ lastOutcome.via = "IntegrityError" =>
          /\ lastOutcome.outcome = "Duplicate"
          /\ createdCount[lastOutcome.link] = 1
          /\ Cardinality(RowsOf(lastOutcome.link)) = 1
    /\ lastOutcome.outcome = "Failed" => lastOutcome.via # "IntegrityError"
    /\ \A w \in Writers :
          (writer[w].pc = "insert" /\ RowsOf(AdData(CurrentAd(w)).link) = {})
             => Created(w).exc = "none"

\* a writer that passed the check lost the race at insert
C2_Witness ==
    /\ lastOutcome.via = "IntegrityError"
    /\ \E r \in table : r.link = lastOutcome.link
                        /\ r.analysis_session_id # lastOutcome.sid

C4_DuplicateWritesNothing ==
    [][/\ \A r \in table : r \in table'
       /\ (\E w \in Writers : LookupDuplicate(w) \/ InsertIntegrityError(w))
             => table' = table]_vars

\* a duplicate whose fields and session differ from the stored row's
C4_Witness ==
    /\ lastOutcome.outcome = "Duplicate"
    /\ \E r \in table :
          /\ r.link = lastOutcome.link
          /\ r.title # lastOutcome.ad_data.title
          /\ r.price # lastOutcome.ad_data.price
          /\ r.analysis_session_id # lastOutcome.sid

\* C5: a created row carries the session id of the call and the name of the
\* vehicle whose ad list the record came from, so that
\* get_ads_by_vehicle_and_session(seed, session) returns it.
C5_TaggedWithSeed ==
    lastOutcome.outcome = "Created" =>
        \E r \in table :
            /\ r.link = lastOutcome.link
            /\ r.analysis_session_id = lastOutcome.sid
            /\ r.vehicle_name = lastOutcome.seedName
            /\ r \in GetAdsByVehicleAndSession(table, lastOutcome.seedName, lastOutcome.sid)

----------------------------------------------------------------------------
(* Extraction engine and batch runners *)

MaxUrls == 4

\* ThreadPoolExecutor(max_workers=3) of SyncAdDetailsExtractorTool._run
max_workers == 3

S_ErrorColon == <<"E","r","r","o","r",":"," ">>
T_AquaSale == <<"A","q","u","a"," ","s","a","l","e">>
E_Refused == <<"r","e","f","u","s","e","d">>
E_Parse == <<"b","a","d">>

\* A url with what lies behind it: fetch is what requests.get and the parse do
\* ("ok", "Timeout" or another "RequestException" with message exc, or
\* another "Exception"), and
\* the other fields are what the selectors find on the page.
Page(url, fetch, exc, title, price, location, mileage, year) ==
    [url |-> url, fetch |-> fetch, exc |-> exc, title |-> title, price |-> price,
     location |-> location, mileage |-> mileage, year |-> year]

U_ok == Page("u1", "ok", <<>>, T_AquaSale, "Rs 4,250,000", "Colombo",
             "80,000 km", "2015")
U_refused == Page("u2", "RequestException", E_Refused, NotFoundT, "Not Found",
                  "Not Found", "Not Found", "Not Found")
U_broken == Page("u3", "Exception", E_Parse, NotFoundT, "Not Found",
                 "Not Found", "Not Found", "Not Found")

BatchUrlPool == {U_ok, U_refused, U_broken}

\* the record built from the exception e of url
ErrorRecord(e, url) ==
    [ad_title |-> S_ErrorColon \o e, price_lkr |-> "Error", location |-> "Error",
     mileage_km |-> "Error", year |-> "Error", url |-> url]

\* extract_ad_details_sync / extract_ad_details_async on one url: the record
\* returned, or the exception that leaves the function
ExtractAdDetails(u) ==
    CASE u.fetch = "ok" ->
            [raised |-> FALSE, exc |-> <<>>,
             value |-> [ad_title |-> u.title, price_lkr |-> u.price,
                        location |-> u.location, mileage_km |-> u.mileage,
                        year |-> u.year, url |-> u.url]]
      [] u.fetch \in {"RequestException", "Timeout"} ->
            \* requests.exceptions.Timeout is a RequestException
            [raised |-> FALSE, exc |-> <<>>, value |-> ErrorRecord(u.exc, u.url)]
      [] OTHER ->
            [raised |-> TRUE, exc |-> u.exc, value |-> ErrorRecord(<<>>, "")]

\* mutant: the collecting loop dropping a future whose result() raised
CollectedSwallow(results, done, url) ==
    IF done.raised THEN results ELSE Append(results, done.value)

\* the body of the collecting loops: future.result() appended, or the error
\* record of the url when it raised
Collected(results, done, url) ==
    IF done.raised
    THEN Append(results, ErrorRecord(done.exc, url))
    ELSE Append(results, done.value)

NoOut == [kind |-> "none", results |-> <<>>, exc |-> "none"]

BatchInit ==
    /\ b_pc = "idle"
    /\ b_mode = "none"
    /\ b_urls = <<>>
    /\ b_fut = <<>>
    /\ b_results = <<>>
    /\ b_out = NoOut
    /\ b_timedOut = FALSE
    /\ b_inflight = {}

UrlLists == UNION {[1..n -> BatchUrlPool] : n \in 0..MaxUrls}

Idx == 1..Len(b_urls)

FutDone(i) == b_fut[i].st \in {"done", "yielded"}

\* a call of batch_extract_ad_details_sync (parallel), of
\* extract_ad_details_sequential or of batch_extract_ad_details_async
CallBatch ==
    /\ b_pc = "idle"
    /\ \E urls \in UrlLists, mode \in {"parallel", "sequential", "async"} :
         /\ b_urls' = urls
         /\ b_mode' = mode
         /\ b_fut' = [i \in 1..Len(urls) |->
                        [st |-> "queued", done |-> ExtractAdDetails(urls[i])]]
         /\ IF mode = "parallel" /\ urls = <<>>
            THEN /\ b_pc' = "returned"
                 /\ b_out' = [kind |-> "results", results |-> <<>>, exc |-> "none"]
            ELSE /\ b_pc' = CASE mode = "parallel" -> "collecting"
                              [] mode = "sequential" -> "sequential"
                              [] OTHER -> "gathering"
                 /\ b_out' = NoOut
    /\ b_results' = <<>>
    /\ b_timedOut' = FALSE
    /\ b_inflight' = {}
    /\ UNCHANGED <<storeVars, hybridVars, toolVars, crewVars>>

\* a pool thread takes the oldest queued call when fewer than max_workers run
WorkerStart(i) ==
    /\ b_mode = "parallel"
    /\ b_pc \in {"collecting", "shutdown"}
    /\ i \in Idx
    /\ b_fut[i].st = "queued"
    /\ \A j \in 1..(i - 1) : b_fut[j].st # "queued"
    /\ Cardinality({j \in Idx : b_fut[j].st = "running"}) < max_workers
    /\ b_fut' = [b_fut EXCEPT ![i].st = "running"]
    /\ UNCHANGED <<b_pc, b_mode, b_urls, b_results, b_out, b_timedOut, b_inflight>>
    /\ UNCHANGED <<storeVars, hybridVars, toolVars, crewVars>>

\* extract_ad_details_sync returns or raises in its thread
WorkerFinish(i) ==
    /\ b_mode = "parallel"
    /\ b_pc \in {"collecting", "shutdown"}
    /\ i \in Idx
    /\ b_fut[i].st = "running"
    /\ b_fut' = [b_fut EXCEPT ![i].st = "done"]
    /\ UNCHANGED <<b_pc, b_mode, b_urls, b_results, b_out, b_timedOut, b_inflight>>
    /\ UNCHANGED <<storeVars, hybridVars, toolVars, crewVars>>

\* as_completed yields a finished future and the loop body appends
Collect(i) ==
    /\ b_pc = "collecting"
    /\ i \in Idx
    /\ b_fut[i].st = "done"
    /\ b_results' = Collected(b_results, b_fut[i].done, b_urls[i].url)
    /\ b_fut' = [b_fut EXCEPT ![i].st = "yielded"]
    /\ UNCHANGED <<b_pc, b_mode, b_urls, b_out, b_timedOut, b_inflight>>
    /\ UNCHANGED <<storeVars, hybridVars, toolVars, crewVars>>

\* every future was yielded: the with block ends and results is returned
ReturnResults ==
    /\ b_pc = "collecting"
    /\ \A i \in Idx : b_fut[i].st = "yielded"
    /\ b_pc' = "returned"
    /\ b_out' = [kind |-> "results", results |-> b_results, exc |-> "none"]
    /\ UNCHANGED <<b_mode, b_urls, b_fut, b_results, b_timedOut, b_inflight>>
    /\ UNCHANGED <<storeVars, hybridVars, toolVars, crewVars>>

\* the 60 s of as_completed are over while a future is unfinished:
\* TimeoutError leaves the for loop, which no except clause encloses
Timeout ==
    /\ b_pc = "collecting"
    /\ \E i \in Idx : ~FutDone(i)
    /\ b_timedOut' = TRUE
    /\ b_inflight' = {i \in Idx : ~FutDone(i)}
    /\ b_pc' = "shutdown"
    /\ UNCHANGED <<b_mode, b_urls, b_fut, b_results, b_out>>
    /\ UNCHANGED <<storeVars, hybridVars, toolVars, crewVars>>

\* the with block's exit, executor.shutdown(wait=True), has waited for every
\* future; then the TimeoutError reaches the caller
ShutdownDone ==
    /\ b_pc = "shutdown"
    /\ \A i \in Idx : FutDone(i)
    /\ b_pc' = "returned"
    /\ b_out' = [kind |-> "raised", results |-> <<>>, exc |-> "TimeoutError"]
    /\ UNCHANGED <<b_mode, b_urls, b_fut, b_results, b_timedOut, b_inflight>>
    /\ UNCHANGED <<storeVars, hybridVars, toolVars, crewVars>>

\* one iteration of extract_ad_details_sequential
SequentialStep(i) ==
    /\ b_pc = "sequential"
    /\ i \in Idx
    /\ b_fut[i].st = "queued"
    /\ \A j \in 1..(i - 1) : b_fut[j].st = "yielded"
    /\ b_results' = Collected(b_results, b_fut[i].done, b_urls[i].url)
    /\ b_fut' = [b_fut EXCEPT ![i].st = "yielded"]
    /\ UNCHANGED <<b_pc, b_mode, b_urls, b_out, b_timedOut, b_inflight>>
    /\ UNCHANGED <<storeVars, hybridVars, toolVars, crewVars>>

SequentialReturn ==
    /\ b_pc = "sequential"
    /\ \A i \in Idx : b_fut[i].st = "yielded"
    /\ b_pc' = "returned"
    /\ b_out' = [kind |-> "results", results |-> b_results, exc |-> "none"]
    /\ UNCHANGED <<b_mode, b_urls, b_fut, b_results, b_timedOut, b_inflight>>
    /\ UNCHANGED <<storeVars, hybridVars, toolVars, crewVars>>

\* a coroutine of the gather runs up to its await of requests.get
TaskStart(i) ==
    /\ b_mode = "async"
    /\ b_pc \in {"gathering", "returned"}
    /\ i \in Idx
    /\ b_fut[i].st = "queued"
    /\ b_fut' = [b_fut EXCEPT ![i].st = "running"]
    /\ UNCHANGED <<b_pc, b_mode, b_urls, b_results, b_out, b_timedOut, b_inflight>>
    /\ UNCHANGED <<storeVars, hybridVars, toolVars, crewVars>>

\* the coroutine resumes, parses and returns or raises
TaskFinish(i) ==
    /\ b_mode = "async"
    /\ b_pc \in {"gathering", "returned"}
    /\ i \in Idx
    /\ b_fut[i].st = "running"
    /\ b_fut' = [b_fut EXCEPT ![i].st = "done"]
    /\ UNCHANGED <<b_pc, b_mode, b_urls, b_results, b_out, b_timedOut, b_inflight>>
    /\ UNCHANGED <<storeVars, hybridVars, toolVars, crewVars>>

\* asyncio.gather(*tasks): the first exception of a task is raised to the
\* awaiting caller at once; the other tasks go on but their results are lost
GatherRaise ==
    /\ b_pc = "gathering"
    /\ \E i \in Idx :
         /\ b_fut[i].st = "done"
         /\ b_fut[i].done.raised
         /\ b_out' = [kind |-> "raised", results |-> <<>>, exc |-> "Exception"]
    /\ b_pc' = "returned"
    /\ UNCHANGED <<b_mode, b_urls, b_fut, b_results, b_timedOut, b_inflight>>
    /\ UNCHANGED <<storeVars, hybridVars, toolVars, crewVars>>

\* every task returned: gather gives the values in the order of the urls
GatherReturn ==
    /\ b_pc = "gathering"
    /\ \A i \in Idx : b_fut[i].st = "done" /\ ~b_fut[i].done.raised
    /\ b_results' = [i \in Idx |-> b_fut[i].done.value]
    /\ b_out' = [kind |-> "results", results |-> b_results', exc |-> "none"]
    /\ b_pc' = "returned"
    /\ UNCHANGED <<b_mode, b_urls, b_fut, b_timedOut, b_inflight>>
    /\ UNCHANGED <<storeVars, hybridVars, toolVars, crewVars>>

BatchNext ==
    \/ CallBatch
    \/ ReturnResults
    \/ Timeout
    \/ ShutdownDone
    \/ SequentialReturn
    \/ GatherRaise
    \/ GatherReturn
    \/ \E i \in 1..MaxUrls :
          \/ WorkerStart(i)
          \/ WorkerFinish(i)
          \/ Collect(i)
          \/ SequentialStep(i)
          \/ TaskStart(i)
          \/ TaskFinish(i)

\* Claims about the batch runners

\* what the batch owes for one url: its record, or the error record carrying
\* the url when fetching it raised
ExpectedResult(u) ==
    IF u.fetch = "ok"
    THEN [ad_title |-> u.title, price_lkr |-> u.price, location |-> u.location,
          mileage_km |-> u.mileage, year |-> u.year, url |-> u.url]
    ELSE ErrorRecord(u.exc, u.url)

CountIn(seq, x) == Cardinality({k \in 1..Len(seq) : seq[k] = x})

SameMultiset(a, b) ==
    /\ Len(a) = Len(b)
    /\ \A k \in 1..Len(a) : CountIn(a, a[k]) = CountIn(b, a[k])

ErrorTagged(r) == r.price_lkr = "Error" /\ r.location = "Error"
                  /\ r.mileage_km = "Error" /\ r.year = "Error"

\* C6: when no timeout strikes, the thread-pool runner and the sequential
\* runner return exactly one result per url under any interleaving: the
\* same multiset, the K failing urls error-tagged and the others successful.
C6_BatchIsolation ==
    (b_pc = "returned" /\ b_mode \in {"parallel", "sequential"} /\ ~b_timedOut) =>
        /\ b_out.kind = "results"
        /\ Len(b_out.results) = Len(b_urls)
        /\ SameMultiset(b_out.results, [i \in Idx |-> ExpectedResult(b_urls[i])])
        /\ Cardinality({k \in 1..Len(b_out.results) : ErrorTagged(b_out.results[k])})
              = Cardinality({i \in Idx : b_urls[i].fetch # "ok"})

\* the pool returned a batch with raising and successful urls, collected in
\* another order than submitted
C6_Witness ==
    /\ b_pc = "returned"
    /\ b_mode = "parallel"
    /\ ~b_timedOut
    /\ Len(b_urls) >= 3
    /\ \E i \in Idx : b_urls[i].fetch = "Exception"
    /\ \E i \in Idx : b_urls[i].fetch = "ok"
    /\ b_out.results[1].url # b_urls[1].url

\* C7: the async runner returns one result per url, the slot of a url whose
\* fetch or parse raised (whatever the exception) being error-tagged.
C7_GatherIsolation ==
    (b_pc = "returned" /\ b_mode = "async") =>
        /\ b_out.kind = "results"
        /\ Len(b_out.results) = Len(b_urls)
        /\ \A i \in Idx :
              /\ b_out.results[i].url = b_urls[i].url
              /\ b_urls[i].fetch # "ok" => ErrorTagged(b_out.results[i])

\* C8: when the aggregate wait elapses with workers in flight, the batch
\* returns the completed workers' results and a timeout-tagged result for
\* each unfinished url, without raising and without waiting for them.
C8_TimeoutKeepsCompleted ==
    (b_timedOut /\ b_pc = "returned" /\ b_inflight # {}) =>
        /\ b_out.kind = "results"
        /\ Len(b_out.results) = Len(b_urls)
        /\ \A k \in 1..Len(b_results) : CountIn(b_out.results, b_results[k]) >= 1
        /\ \A i \in b_inflight :
              \E k \in 1..Len(b_out.results) :
                  b_out.results[k].url = b_urls[i].url /\ ErrorTagged(b_out.results[k])

----------------------------------------------------------------------------
(* AIFriendlyAdDetailsExtractor: real, mock and hybrid extraction.         *)
(* Confidences and quality scores are in hundredths.                       *)

MaxHybridUrls == 3

S_Error == <<"E","r","r","o","r">>
S_rent == <<"r","e","n","t">>
T_Error404 == <<"E","r","r","o","r"," ","4","0","4">>
T_AquaRent == <<"A","q","u","a"," ","r","e","n","t">>

exclude_keywords == <<<<"r","e","n","t">>,
                      <<"r","e","n","t","a","l">>,
                      <<"h","i","r","e">>,
                      <<"l","e","a","s","e">>,
                      <<"p","a","r","t","s">>,
                      <<"s","p","a","r","e">>,
                      <<"a","c","c","e","s","s","o","r","i","e","s">>,
                      <<"s","e","r","v","i","c","e">>,
                      <<"r","e","p","a","i","r">>>>

include_keywords == <<<<"s","a","l","e">>,
                      <<"s","e","l","l">>,
                      <<"s","e","l","l","i","n","g">>,
                      <<"f","o","r"," ","s","a","l","e">>>>

H_full == Page("h1", "ok", <<>>, T_AquaSale, "Rs 4,250,000", "Colombo",
               "80,000 km", "2015")
H_title == Page("h2", "ok", <<>>, T_AquaSale, "Not Found", "Not Found",
                "Not Found", "Not Found")
H_errpage == Page("h3", "ok", <<>>, T_Error404, "Rs 100", "Not Found",
                  "Not Found", "Not Found")
H_rent == Page("h4", "ok", <<>>, T_AquaRent, "Rs 5,000", "Kandy", "Not Found",
               "2015")
H_notitle == Page("h5", "ok", <<>>, NotFoundT, "Rs 1,000,000", "Galle",
                  "Not Found", "Not Found")
H_refused == Page("h6", "RequestException", E_Refused, NotFoundT, "Not Found",
                  "Not Found", "Not Found", "Not Found")
H_broken == Page("h7", "Exception", E_Parse, NotFoundT, "Not Found",
                 "Not Found", "Not Found", "Not Found")

HybridUrlPool == {H_full, H_title, H_errpage, H_rent, H_notitle, H_refused, H_broken}

HybridUrlLists == UNION {[1..n -> HybridUrlPool] : n \in 0..MaxHybridUrls}

\* batch_extract_ad_details_async as its awaiting caller sees it: the list of
\* the records, or the exception of a task
BatchExtractAsync(urls) ==
    IF \E i \in 1..Len(urls) : ExtractAdDetails(urls[i]).raised
    THEN [raised |-> TRUE, values |-> <<>>]
    ELSE [raised |-> FALSE,
          values |-> [i \in 1..Len(urls) |-> ExtractAdDetails(urls[i]).value]]

IsValidAd(ad) ==
    /\ "ad_title" \in DOMAIN ad /\ ad.ad_title # NotFoundT /\ ad.ad_title # <<>>
    /\ "url" \in DOMAIN ad /\ ad.url # "Not Found" /\ ad.url # ""

IsSaleAd(ad) ==
    LET title == Lower(DictGet(ad, "ad_title", <<>>))
    IN  IF \E k \in 1..Len(exclude_keywords) : Contains(exclude_keywords[k], title)
        THEN FALSE
        ELSE (\E k \in 1..Len(include_keywords) : Contains(include_keywords[k], title))
             \/ ~Contains(S_rent, title)

\* a field value that is neither missing, empty nor "Not Found"
NotMissing(ad, f) == f \in DOMAIN ad /\ ad[f] # "" /\ ad[f] # "Not Found"

CountExtractedFields(ad) ==
    (IF "ad_title" \in DOMAIN ad /\ ad.ad_title # NotFoundT /\ ad.ad_title # <<>>
     THEN 1 ELSE 0)
    + Cardinality({f \in {"price_lkr", "location", "mileage_km", "year"} :
                      NotMissing(ad, f)})

\* ratio = valid_fields / 5 against 0.9, 0.7 and 0.5
AssessAdQuality(ad) ==
    LET valid_fields == CountExtractedFields(ad)
    IN  IF valid_fields * 10 >= 9 * 5 THEN "excellent"
        ELSE IF valid_fields * 10 >= 7 * 5 THEN "good"
        ELSE IF valid_fields * 10 >= 5 * 5 THEN "fair"
        ELSE "poor"

CalculateConfidence(ad) ==
    (IF DictGet(ad, "ad_title", <<>>) # <<>>
        /\ ~Contains(S_Error, DictGet(ad, "ad_title", <<>>)) THEN 30 ELSE 0)
    + (IF NotMissing(ad, "price_lkr") THEN 25 ELSE 0)
    + (IF NotMissing(ad, "location") THEN 20 ELSE 0)
    + (IF NotMissing(ad, "mileage_km") THEN 15 ELSE 0)
    + (IF NotMissing(ad, "year") THEN 10 ELSE 0)

ProcessAdData(ad) ==
    [f \in DOMAIN ad \cup {"_metadata"} |->
        IF f = "_metadata"
        THEN [extraction_method |-> "real", quality |-> AssessAdQuality(ad),
              confidence |-> CalculateConfidence(ad),
              fields_extracted |-> CountExtractedFields(ad)]
        ELSE ad[f]]

RECURSIVE TotalConfidence(_)
TotalConfidence(ads) ==
    IF ads = <<>> THEN 0
    ELSE ads[1]["_metadata"].confidence + TotalConfidence(Tail(ads))

\* round(x / n, 2) in hundredths; a tie goes to the even neighbour
RoundDiv(x, n) ==
    LET q == x \div n
        r2 == 2 * (x % n)
    IN  IF r2 < n THEN q
        ELSE IF r2 > n THEN q + 1
        ELSE IF q % 2 = 0 THEN q ELSE q + 1

CalculateQualityScore(ads) ==
    IF ads = <<>> THEN 0 ELSE RoundDiv(TotalConfidence(ads), Len(ads))

\* the loop of _extract_real_data over raw_ads: the processed ads and the errors
RECURSIVE RealLoop(_, _, _, _)
RealLoop(raw_ads, filter_sales, ads, errors) ==
    IF raw_ads = <<>> THEN [ads |-> ads, errors |-> errors]
    ELSE LET ad == Head(raw_ads)
         IN  IF IsValidAd(ad)
             THEN IF ~filter_sales \/ IsSaleAd(ad)
                  THEN RealLoop(Tail(raw_ads), filter_sales,
                                Append(ads, ProcessAdData(ad)), errors)
                  ELSE RealLoop(Tail(raw_ads), filter_sales, ads, errors)
             ELSE RealLoop(Tail(raw_ads), filter_sales, ads,
                           Append(errors, "Invalid ad data for URL: unknown"))

ExtractionResult(success, ad_count, quality_score, errors, ads, processing_mode) ==
    [success |-> success, ad_count |-> ad_count, quality_score |-> quality_score,
     errors |-> errors, ads |-> ads, processing_mode |-> processing_mode]

ExtractRealData(urls, filter_sales) ==
    LET raw == BatchExtractAsync(urls)
        done == RealLoop(raw.values, filter_sales, <<>>, <<>>)
    IN  IF raw.raised
        THEN ExtractionResult(FALSE, 0, 0, <<"Real extraction failed">>, <<>>,
                              "real_failed")
        ELSE ExtractionResult(Len(done.ads) > 0, Len(done.ads),
                              CalculateQualityScore(done.ads), done.errors,
                              done.ads, "real")

vehicle_templates ==
    <<[make |-> <<"T","o","y","o","t","a">>, model |-> <<"A","q","u","a">>, base_price |-> 4500000],
      [make |-> <<"H","o","n","d","a">>, model |-> <<"F","i","t">>, base_price |-> 4200000],
      [make |-> <<"N","i","s","s","a","n">>, model |-> <<"M","a","r","c","h">>, base_price |-> 3800000],
      [make |-> <<"S","u","z","u","k","i">>, model |-> <<"S","w","i","f","t">>, base_price |-> 4000000],
      [make |-> <<"T","o","y","o","t","a">>, model |-> <<"V","i","t","z">>, base_price |-> 3900000]>>

locations == <<"Colombo", "Gampaha", "Kandy", "Negombo", "Kurunegala", "Galle", "Matara">>

years == <<2018, 2019, 2020, 2021, 2022>>

yearText == <<<<"2","0","1","8">>, <<"2","0","1","9">>, <<"2","0","2","0">>, <<"2","0","2","1">>, <<"2","0","2","2">>>>

mileages == <<"35,000 km", "52,000 km", "28,000 km", "67,000 km", "41,000 km", "89,000 km">>

S_forSale == <<" ","f","o","r"," ","S","a","l","e">>

Max(a, b) == IF a >= b THEN a ELSE b

\* the mock ad of the url at (0-based) position i; the age factor
\* max(0.7, 1 - (2024 - year) * 0.1) is in tenths
MockAd(i, url) ==
    LET template == vehicle_templates[(i % Len(vehicle_templates)) + 1]
        year == years[(i % Len(years)) + 1]
        age_factor == Max(7, 10 - (2024 - year))
    IN  ("Ad Title" :> (template.make \o <<" ">> \o template.model \o <<" ">>
                        \o yearText[(i % Len(years)) + 1] \o S_forSale))
        @@ ("Price (in LKR)" :> ((template.base_price * age_factor) \div 10 + i * 100000))
        @@ ("Location" :> locations[(i % Len(locations)) + 1])
        @@ ("Mileage (in km)" :> mileages[(i % Len(mileages)) + 1])
        @@ ("Year of Manufacture" :> yearText[(i % Len(years)) + 1])
        @@ ("URL" :> url)
        @@ ("_metadata" :> [extraction_method |-> "mock", quality |-> "excellent",
                            confidence |-> 100])

ExtractMockData(urls) ==
    ExtractionResult(TRUE, Len(urls), 100, <<>>,
                     [k \in 1..Len(urls) |-> MockAd(k - 1, urls[k].url)], "mock")

\* mutant: hybrid mode keeping every real batch that has an ad
HybridKeepsAnySuccess(real_result) == real_result.success

\* the test of _extract_hybrid_data: real extraction was successful enough
HybridKeepsReal(real_result) ==
    real_result.success /\ real_result.quality_score > 30

\* mutant: a per-record decision, the real ads kept and mock ads added to them
ExtractHybridDataPerRecord(real_result, urls) ==
    IF HybridKeepsReal(real_result)
    THEN [real_result EXCEPT !.processing_mode = "hybrid_real"]
    ELSE [ExtractMockData(urls) EXCEPT
            !.processing_mode = "hybrid_mock",
            !.ads = real_result.ads \o ExtractMockData(urls).ads]

ExtractHybridData(real_result, urls) ==
    IF HybridKeepsReal(real_result)
    THEN [real_result EXCEPT !.processing_mode = "hybrid_real"]
    ELSE [ExtractMockData(urls) EXCEPT
            !.processing_mode = "hybrid_mock",
            !.errors = real_result.errors \o
               <<"Fell back to mock data due to poor real extraction quality">>]

NoResult == ExtractionResult(FALSE, 0, 0, <<>>, <<>>, "none")

HybridInit ==
    /\ h_pc = "idle"
    /\ h_mode = "none"
    /\ h_urls = <<>>
    /\ h_filter = TRUE
    /\ h_real = NoResult
    /\ h_result = NoResult

\* _arun is called with a url list (already parsed), a mode and the filter flag
HCall ==
    /\ h_pc = "idle"
    /\ \E urls \in HybridUrlLists, mode \in {"real", "mock", "hybrid"},
          filter_sales \in BOOLEAN :
         /\ h_urls' = urls
         /\ h_mode' = mode
         /\ h_filter' = filter_sales
    /\ h_pc' = "called"
    /\ h_real' = NoResult
    /\ h_result' = NoResult
    /\ UNCHANGED <<storeVars, batchVars, toolVars, crewVars>>

\* no url: the error response
HNoUrls ==
    /\ h_pc = "called"
    /\ h_urls = <<>>
    /\ h_result' = ExtractionResult(FALSE, 0, 0, <<"No valid URLs found in input">>,
                                    <<>>, "error")
    /\ h_pc' = "done"
    /\ UNCHANGED <<h_mode, h_urls, h_filter, h_real>>
    /\ UNCHANGED <<storeVars, batchVars, toolVars, crewVars>>

HReal ==
    /\ h_pc = "called"
    /\ h_urls # <<>>
    /\ h_mode = "real"
    /\ h_real' = ExtractRealData(h_urls, h_filter)
    /\ h_result' = h_real'
    /\ h_pc' = "done"
    /\ UNCHANGED <<h_mode, h_urls, h_filter>>
    /\ UNCHANGED <<storeVars, batchVars, toolVars, crewVars>>

HMock ==
    /\ h_pc = "called"
    /\ h_urls # <<>>
    /\ h_mode = "mock"
    /\ h_result' = ExtractMockData(h_urls)
    /\ h_pc' = "done"
    /\ UNCHANGED <<h_mode, h_urls, h_filter, h_real>>
    /\ UNCHANGED <<storeVars, batchVars, toolVars, crewVars>>

\* hybrid mode awaits the real extraction ...
HHybridReal ==
    /\ h_pc = "called"
    /\ h_urls # <<>>
    /\ h_mode = "hybrid"
    /\ h_real' = ExtractRealData(h_urls, h_filter)
    /\ h_pc' = "real"
    /\ UNCHANGED <<h_mode, h_urls, h_filter, h_result>>
    /\ UNCHANGED <<storeVars, batchVars, toolVars, crewVars>>

\* ... and keeps it or falls back to mock data
HHybridDecide ==
    /\ h_pc = "real"
    /\ h_result' = ExtractHybridData(h_real, h_urls)
    /\ h_pc' = "done"
    /\ UNCHANGED <<h_mode, h_urls, h_filter, h_real>>
    /\ UNCHANGED <<storeVars, batchVars, toolVars, crewVars>>

HybridNext ==
    \/ HCall
    \/ HNoUrls
    \/ HReal
    \/ HMock
    \/ HHybridReal
    \/ HHybridDecide

\* Claims about hybrid mode

FallbackReason == "Fell back to mock data due to poor real extraction quality"

AllSynthetic(result, urls) ==
    /\ result.processing_mode = "hybrid_mock"
    /\ Len(result.ads) = Len(urls)
    /\ \A k \in 1..Len(result.ads) :
          /\ result.ads[k]["_metadata"].extraction_method = "mock"
          /\ result.ads[k]["URL"] = urls[k].url

\* C9: in hybrid mode, a real batch whose mean confidence is below 0.3 (or
\* that is empty) is discarded: the returned batch is only mock records, one
\* per input url, and the errors carry the reason.
C9_FallbackBelowFloor ==
    (h_pc = "done" /\ h_mode = "hybrid" /\ h_urls # <<>>
        /\ TotalConfidence(h_real.ads) < 30 * Len(h_real.ads)) =>
        /\ AllSynthetic(h_result, h_urls)
        /\ \E k \in 1..Len(h_result.errors) : h_result.errors[k] = FallbackReason

\* a real batch with records, of mean confidence under the floor, was replaced
C9_Witness ==
    /\ h_pc = "done"
    /\ h_mode = "hybrid"
    /\ Len(h_real.ads) >= 2
    /\ TotalConfidence(h_real.ads) > 0
    /\ TotalConfidence(h_real.ads) < 30 * Len(h_real.ads)
    /\ h_result.processing_mode = "hybrid_mock"

\* C10: in hybrid mode, when the fetch of every url failed, the real results
\* are discarded and the returned batch is entirely synthetic.
C10_AllFetchesFailedFallsBack ==
    (h_pc = "done" /\ h_mode = "hybrid" /\ h_urls # <<>>
        /\ \A i \in 1..Len(h_urls) : h_urls[i].fetch = "RequestException") =>
        AllSynthetic(h_result, h_urls)

\* C11: every batch the extractor returns, in real, mock or hybrid mode, is
\* homogeneous: all its records carry the same extraction-method tag.
C11_HomogeneousBatch ==
    h_pc = "done" =>
        \A j, k \in 1..Len(h_result.ads) :
            h_result.ads[j]["_metadata"].extraction_method
                = h_result.ads[k]["_metadata"].extraction_method

\* hybrid mode replaced a real batch that had records by several mock records
C11_Witness ==
    /\ h_pc = "done"
    /\ h_mode = "hybrid"
    /\ Len(h_real.ads) >= 1
    /\ Len(h_result.ads) >= 2
    /\ h_result.processing_mode = "hybrid_mock"

\* C12: in hybrid mode, a real batch with at least one record whose quality
\* score is at least 0.3, exactly 0.3 included, is returned as hybrid_real.
C12_FloorIsInclusive ==
    (h_pc = "done" /\ h_mode = "hybrid" /\ h_real.success
        /\ h_real.quality_score >= 30) =>
        /\ h_result.processing_mode = "hybrid_real"
        /\ h_result.ads = h_real.ads

----------------------------------------------------------------------------
(* SimpleAdDetailsExtractor                                                *)

MaxSimpleUrls == 2

Digits == <<"0","1","2","3","4","5","6","7","8","9">>

\* str() of a natural number
RECURSIVE Str(_)
Str(n) == IF n < 10 THEN <<Digits[n + 1]>> ELSE Str(n \div 10) \o <<Digits[(n % 10) + 1]>>

UpperChar(c) ==
    IF \E k \in 1..26 : LowerAlpha[k] = c
    THEN UpperAlpha[CHOOSE k \in 1..26 : LowerAlpha[k] = c]
    ELSE c

\* str.title() of one word of letters
Title(w) == [k \in 1..Len(w) |-> IF k = 1 THEN UpperChar(w[k]) ELSE LowerChar(w[k])]

\* str.split(): the words between runs of blanks
RECURSIVE Split(_, _, _)
Split(s, word, words) ==
    IF s = <<>> THEN (IF word = <<>> THEN words ELSE Append(words, word))
    ELSE IF Head(s) = " "
         THEN Split(Tail(s), <<>>, IF word = <<>> THEN words ELSE Append(words, word))
         ELSE Split(Tail(s), Append(word, Head(s)), words)

S_Toyota == <<"T","o","y","o","t","a">>
S_Car == <<"C","a","r">>
VN_ToyotaAqua == <<"t","o","y","o","t","a"," ","A","Q","U","A">>
VN_Vitz == <<"V","i","t","z">>
SimpleVehicleNames == {VN_ToyotaAqua, VN_Vitz, <<>>}

SimpleUrlLists == UNION {[1..n -> {"g1", "g2"}] : n \in 0..MaxSimpleUrls}

simple_vehicle_templates(make, model) ==
    <<[make |-> make, model |-> model, base_price |-> 4500000],
      [make |-> S_Toyota, model |-> <<"A","q","u","a">>, base_price |-> 4200000],
      [make |-> <<"H","o","n","d","a">>, model |-> <<"F","i","t">>, base_price |-> 3800000],
      [make |-> <<"N","i","s","s","a","n">>, model |-> <<"M","a","r","c","h">>, base_price |-> 3600000],
      [make |-> <<"S","u","z","u","k","i">>, model |-> <<"S","w","i","f","t">>, base_price |-> 4000000],
      [make |-> S_Toyota, model |-> <<"V","i","t","z">>, base_price |-> 3500000],
      [make |-> <<"H","o","n","d","a">>, model |-> <<"V","e","z","e","l">>, base_price |-> 6500000],
      [make |-> S_Toyota, model |-> <<"P","r","i","u","s">>, base_price |-> 5800000]>>

simple_locations == <<"Colombo 01", "Colombo 05", "Gampaha", "Kandy", "Negombo",
                      "Kurunegala", "Galle", "Matara", "Kalutara", "Battaramulla">>

simple_years == <<2018, 2019, 2020, 2021, 2022, 2023>>

mileage_ranges == <<"25,000 km", "35,000 km", "45,000 km", "55,000 km",
                    "28,000 km", "38,000 km", "48,000 km", "65,000 km",
                    "32,000 km", "42,000 km", "75,000 km", "85,000 km">>

conditions == <<"Excellent", "Very Good", "Good">>
transmissions == <<"Automatic", "Manual">>
fuel_types == <<"Petrol", "Hybrid", "Diesel">>

S_ExcellentCondition == <<" ","-"," ","E","x","c","e","l","l","e","n","t"," ",
                          "C","o","n","d","i","t","i","o","n">>

\* what the random module gives for one ad: the indices random.choice picks
\* and random.uniform(0.9, 1.15) in hundredths
Draw(t, y, l, m, v, c, tr, f) ==
    [template |-> t, year |-> y, location |-> l, mileage |-> m, variation |-> v,
     condition |-> c, transmission |-> tr, fuel |-> f]

DrawPool == {Draw(1, 1, 1, 1, 90, 1, 1, 1),
             Draw(8, 6, 10, 12, 115, 3, 2, 3),
             Draw(3, 4, 5, 7, 100, 2, 1, 2)}

\* the mock ad of the url at (0-based) position i; the age factor
\* max(0.65, 1 - (2024 - year) * 0.08) is in hundredths
SimpleMockAd(i, url, vehicle_name, draw) ==
    LET vehicle_parts == Split(Lower(vehicle_name), <<>>, <<>>)
        make == IF Len(vehicle_parts) > 0 THEN Title(vehicle_parts[1]) ELSE S_Toyota
        model == IF Len(vehicle_parts) > 1 THEN Title(vehicle_parts[2]) ELSE S_Car
        templates == simple_vehicle_templates(make, model)
        template == IF i = 0 THEN templates[1] ELSE templates[draw.template]
        year == simple_years[draw.year]
        age_factor == Max(65, 100 - (2024 - year) * 8)
        \* int(base_price * age_factor * price_variation); every base price
        \* is a multiple of 10000
        price == (template.base_price \div 10000) * age_factor * draw.variation
    IN  ("Ad Title" :> (template.make \o <<" ">> \o template.model \o <<" ">>
                        \o Str(year) \o S_ExcellentCondition))
        @@ ("Price (in LKR)" :> (price \div 50000) * 50000)
        @@ ("Location" :> simple_locations[draw.location])
        @@ ("Mileage (in km)" :> mileage_ranges[draw.mileage])
        @@ ("Year of Manufacture" :> Str(year))
        @@ ("URL" :> url)
        @@ ("Condition" :> conditions[draw.condition])
        @@ ("Transmission" :> transmissions[draw.transmission])
        @@ ("Fuel Type" :> fuel_types[draw.fuel])
        @@ ("_metadata" :> [extraction_method |-> "mock_reliable", quality |-> "excellent",
                            confidence |-> 95, fields_extracted |-> 8,
                            data_freshness |-> "generated"])

GenerateMockAds(urls, vehicle_name, draws) ==
    [k \in 1..Len(urls) |-> SimpleMockAd(k - 1, urls[k], vehicle_name, draws[k])]

\* the branch  `if use_mock or True`
SimpleUsesMock(use_mock) == use_mock \/ TRUE

\* the real extraction the else branch holds today
SimpleElseBranch(urls, vehicle_name, draws) == GenerateMockAds(urls, vehicle_name, draws)

SimpleRun(urls, vehicle_name, use_mock, draws) ==
    IF urls = <<>>
    THEN [status |-> "error", ad_count |-> 0, quality_score |-> 0,
          processing_mode |-> "error", ads |-> <<>>]
    ELSE LET ads == IF SimpleUsesMock(use_mock)
                    THEN GenerateMockAds(urls, vehicle_name, draws)
                    ELSE SimpleElseBranch(urls, vehicle_name, draws)
         IN  [status |-> "success", ad_count |-> Len(ads), quality_score |-> 95,
              processing_mode |-> "mock_reliable", ads |-> ads]

NoSimpleIn == [urls |-> <<>>, vehicle_name |-> <<>>, use_mock |-> TRUE, draws |-> <<>>]
NoSimpleOut == [status |-> "none", ad_count |-> 0, quality_score |-> 0,
                processing_mode |-> "none", ads |-> <<>>]

SimpleInit ==
    /\ g_pc = "idle"
    /\ g_in = NoSimpleIn
    /\ g_out = NoSimpleOut

\* _run is called with a url list (already parsed), a vehicle name and use_mock
GCall ==
    /\ g_pc = "idle"
    /\ \E urls \in SimpleUrlLists, vehicle_name \in SimpleVehicleNames,
          use_mock \in BOOLEAN :
         \E draws \in [1..Len(urls) -> DrawPool] :
            g_in' = [urls |-> urls, vehicle_name |-> vehicle_name,
                     use_mock |-> use_mock, draws |-> draws]
    /\ g_pc' = "called"
    /\ UNCHANGED g_out
    /\ UNCHANGED <<crewVars, storeVars, batchVars, hybridVars, pipeVars, engineVars,
                   scorerVars, classVars>>

GRun ==
    /\ g_pc = "called"
    /\ g_out' = SimpleRun(g_in.urls, g_in.vehicle_name, g_in.use_mock, g_in.draws)
    /\ g_pc' = "done"
    /\ UNCHANGED g_in
    /\ UNCHANGED <<crewVars, storeVars, batchVars, hybridVars, pipeVars, engineVars,
                   scorerVars, classVars>>

SimpleNext ==
    \/ GCall
    \/ GRun

\* C13: a call of SimpleAdDetailsExtractor._run with use_mock = false returns
\* no synthetic record, and a call of AIFriendlyAdDetailsExtractor in mode
\* real returns none either.
C13_MockOnlyOnRequest ==
    /\ (g_pc = "done" /\ ~g_in.use_mock) =>
          \A k \in 1..Len(g_out.ads) :
              g_out.ads[k]["_metadata"].extraction_method \notin {"mock", "mock_reliable"}
    /\ (h_pc = "done" /\ h_mode = "real") =>
          \A k \in 1..Len(h_result.ads) :
              h_result.ads[k]["_metadata"].extraction_method \notin {"mock", "mock_reliable"}

----------------------------------------------------------------------------
(* The crew's handling of extracted records: _parse_and_validate_ads,      *)
(* _store_ads_in_database_safe, _convert_to_ad_details_format and          *)
(* _add_session_data_to_ads.  Every field value is a character sequence.   *)

Whitespace == {" ", "\t", "\n"}

RECURSIVE LStrip(_)
LStrip(s) == IF s # <<>> /\ Head(s) \in Whitespace THEN LStrip(Tail(s)) ELSE s

RECURSIVE RStrip(_)
RStrip(s) ==
    IF s # <<>> /\ s[Len(s)] \in Whitespace THEN RStrip(SubSeq(s, 1, Len(s) - 1)) ELSE s

\* str.strip()
Strip(s) == RStrip(LStrip(s))

\* str.replace(sub, '')
RECURSIVE Remove(_, _)
Remove(s, sub) ==
    IF Len(s) < Len(sub) THEN s
    ELSE IF SubSeq(s, 1, Len(sub)) = sub
         THEN Remove(SubSeq(s, Len(sub) + 1, Len(s)), sub)
         ELSE <<Head(s)>> \o Remove(Tail(s), sub)

IsDigit(c) == \E d \in 1..10 : Digits[d] = c

DigitVal(c) == (CHOOSE d \in 1..10 : Digits[d] = c) - 1

AllDigits(s) == \A k \in 1..Len(s) : IsDigit(s[k])

RECURSIVE ToNat(_)
ToNat(s) == IF s = <<>> THEN 0 ELSE ToNat(SubSeq(s, 1, Len(s) - 1)) * 10 + DigitVal(s[Len(s)])

S_inf == <<"i","n","f">>
S_infinity == <<"i","n","f","i","n","i","t","y">>
S_nan == <<"n","a","n">>

\* float(s): blanks around, a sign, then digits with at most one point, or
\* inf, infinity or nan in any case; anything else is a ValueError
\* (ok = FALSE).  The value is kept as sign, integer part and the digits
\* after the point; special is "inf" or "nan" for those values.
ParseFloat(s) ==
    LET t == Strip(s)
        signed == t # <<>> /\ Head(t) \in {"+", "-"}
        body == IF signed THEN Tail(t) ELSE t
        points == {k \in 1..Len(body) : body[k] = "."}
        dot == IF points = {} THEN Len(body) + 1 ELSE CHOOSE k \in points : TRUE
        whole == SubSeq(body, 1, dot - 1)
        frac == SubSeq(body, dot + 1, Len(body))
        neg == signed /\ Head(t) = "-"
    IN  IF Lower(body) \in {S_inf, S_infinity}
        THEN [ok |-> TRUE, neg |-> neg, whole |-> 0, frac |-> <<>>, special |-> "inf"]
        ELSE IF Lower(body) = S_nan
        THEN [ok |-> TRUE, neg |-> neg, whole |-> 0, frac |-> <<>>, special |-> "nan"]
        ELSE IF Cardinality(points) <= 1 /\ AllDigits(whole) /\ AllDigits(frac)
                /\ Len(whole) + Len(frac) > 0
        THEN [ok |-> TRUE, neg |-> neg, whole |-> ToNat(whole), frac |-> frac,
              special |-> "none"]
        ELSE [ok |-> FALSE, neg |-> FALSE, whole |-> 0, frac |-> <<>>, special |-> "none"]

\* the nearest integer of a parsed number's magnitude, a tie going to the
\* even neighbour
RoundHalfEven(p) ==
    LET f == p.frac
        tail0 == \A k \in 2..Len(f) : f[k] = "0"
        up == /\ f # <<>>
              /\ \/ DigitVal(f[1]) > 5
                 \/ DigitVal(f[1]) = 5 /\ ~tail0
                 \/ DigitVal(f[1]) = 5 /\ tail0 /\ p.whole % 2 = 1
    IN  IF up THEN p.whole + 1 ELSE p.whole

\* the thousands separators of the format specifier ','
RECURSIVE Commas(_)
Commas(digits) ==
    IF Len(digits) <= 3 THEN digits
    ELSE Commas(SubSeq(digits, 1, Len(digits) - 3)) \o <<",">>
         \o SubSeq(digits, Len(digits) - 2, Len(digits))

\* f"{x:,.0f}"
FormatFloat0(p) ==
    IF p.special = "nan" THEN S_nan
    ELSE (IF p.neg THEN <<"-">> ELSE <<>>)
         \o (IF p.special = "inf" THEN S_inf ELSE Commas(Str(RoundHalfEven(p))))

S_RsDot == <<"R","s",".">>
S_LKR == <<"L","K","R">>
S_km == <<"k","m">>
S_comma == <<",">>
S_spacekm == <<" ","k","m">>

NormalizePrice(price) ==
    IF price = <<>> \/ price = NotFoundT THEN NotFoundT
    ELSE LET price_str == Strip(Remove(Remove(Remove(price, S_RsDot), S_LKR), S_comma))
             price_num == ParseFloat(price_str)
         IN  IF price_num.ok THEN FormatFloat0(price_num) ELSE price

NormalizeMileage(mileage) ==
    IF mileage = <<>> \/ mileage = NotFoundT THEN NotFoundT
    ELSE LET mileage_str == Strip(Remove(Remove(mileage, S_km), S_comma))
             mileage_num == ParseFloat(mileage_str)
         IN  IF mileage_num.ok THEN FormatFloat0(mileage_num) \o S_spacekm ELSE mileage

\* what a call gives when it raises OverflowError instead of returning
OverflowError == <<"OverflowError">>

\* mutant: the year rendered with its last two digits
NormalizeYearTwoDigits(year) ==
    IF year = <<>> \/ year = NotFoundT THEN NotFoundT
    ELSE LET p == ParseFloat(year)
             year_num == IF p.neg THEN 0 - p.whole ELSE p.whole
         IN  IF p.ok /\ p.special = "inf" THEN OverflowError
             ELSE IF p.ok /\ p.special = "none" /\ 1900 <= year_num /\ year_num <= 2030
             THEN Str(year_num % 100) ELSE NotFoundT

\* int(float(str(year))) kept only within 1900..2030; int() of a nan is a
\* ValueError, int() of an infinity an OverflowError, which no clause catches
NormalizeYear(year) ==
    IF year = <<>> \/ year = NotFoundT THEN NotFoundT
    ELSE LET p == ParseFloat(year)
             year_num == IF p.neg THEN 0 - p.whole ELSE p.whole
         IN  IF p.ok /\ p.special = "inf" THEN OverflowError
             ELSE IF p.ok /\ p.special = "none" /\ 1900 <= year_num /\ year_num <= 2030
             THEN Str(year_num) ELSE NotFoundT

ValidateAdData(ad) == "ad_title" \in DOMAIN ad /\ "url" \in DOMAIN ad

NormalizeAdData(ad) ==
    [ad_title |-> Strip(DictGet(ad, "ad_title", NotFoundT)),
     price_lkr |-> NormalizePrice(DictGet(ad, "price_lkr", NotFoundT)),
     location |-> Strip(DictGet(ad, "location", NotFoundT)),
     mileage_km |-> NormalizeMileage(DictGet(ad, "mileage_km", NotFoundT)),
     year |-> NormalizeYear(DictGet(ad, "year", NotFoundT)),
     url |-> Strip(DictGet(ad, "url", <<>>))]

\* _normalize_ad_data raises what _normalize_year raises
NormalizeRaises(ad) == NormalizeYear(DictGet(ad, "year", NotFoundT)) = OverflowError

RECURSIVE ValidatedAds(_)
ValidatedAds(ads_data) ==
    IF ads_data = <<>> THEN <<>>
    ELSE IF ValidateAdData(Head(ads_data))
         THEN <<NormalizeAdData(Head(ads_data))>> \o ValidatedAds(Tail(ads_data))
         ELSE ValidatedAds(Tail(ads_data))

\* the validated, normalized ads of a list of records; an exception in the
\* loop is caught and the empty list returned
ParseAndValidateAds(ads_data) ==
    IF \E k \in 1..Len(ads_data) : ValidateAdData(ads_data[k]) /\ NormalizeRaises(ads_data[k])
    THEN <<>>
    ELSE ValidatedAds(ads_data)

\* a.get(old) or a.get(new, "Not Found")
OldOrNew(ad, old, new) ==
    IF DictGet(ad, old, <<>>) # <<>> THEN ad[old] ELSE DictGet(ad, new, NotFoundT)

ConvertToAdDetailsFormat(ads_data) ==
    [k \in 1..Len(ads_data) |->
        [title |-> OldOrNew(ads_data[k], "Ad Title", "ad_title"),
         price |-> OldOrNew(ads_data[k], "Price (in LKR)", "price_lkr"),
         location |-> OldOrNew(ads_data[k], "Location", "location"),
         mileage |-> OldOrNew(ads_data[k], "Mileage (in km)", "mileage_km"),
         year |-> OldOrNew(ads_data[k], "Year of Manufacture", "year"),
         link |-> OldOrNew(ads_data[k], "URL", "url")]]

AddSessionDataToAds(ads_list, analysis_session_id, vehicle_name) ==
    [k \in 1..Len(ads_list) |->
        [f \in DOMAIN ads_list[k] \cup {"analysis_session_id", "vehicle_name"} |->
            IF f = "analysis_session_id" THEN analysis_session_id
            ELSE IF f = "vehicle_name" THEN vehicle_name
            ELSE ads_list[k][f]]]

\* _store_ads_in_database_safe run alone on a table: the rows it leaves
RECURSIVE StoreLoop(_, _, _, _, _, _)
StoreLoop(ads_data, tbl, id, sid, vehicle1, vehicle2) ==
    IF ads_data = <<>> THEN tbl
    ELSE LET ad == Head(ads_data)
             ad_url == IF DictGet(ad, "URL", <<>>) # <<>> THEN ad["URL"]
                       ELSE DictGet(ad, "url", <<>>)
             done == CreateAd(tbl, id, [AdData(ad) EXCEPT !.link = ad_url], sid,
                              DetermineVehicleName(ad, vehicle1, vehicle2))
         IN  IF ad_url = <<>> \/ GetExistingAdByLink(tbl, ad_url) # {}
             THEN StoreLoop(Tail(ads_data), tbl, id, sid, vehicle1, vehicle2)
             ELSE StoreLoop(Tail(ads_data), done.table, id + 1, sid, vehicle1, vehicle2)

\* the records an agent hands to the crew: the fields in the scraper's keys
\* (ad_title, ...) or in the old keys (Ad Title, ...), with the extractor's
\* _metadata
PipeTitles == {T_AquaG, <<" ","F","i","t"," ","G","P"," ">>}
PipePrices == {<<"R","s","."," ","4",",","2","5","0",",","0","0","0">>, <<"4","2","5","0","0","0","0",".","5">>, <<"N","e","g","o","t","i","a","b","l","e">>, NotFoundT}
PipeMileages == {<<"8","0",",","0","0","0"," ","k","m">>, <<"4","5","0","0","0">>, NotFoundT}
PipeYears == {<<"2","0","1","5">>, <<"2","0","1","5",".","0">>, <<"1","8","5","0">>}
PipeLocation == <<"C","o","l","o","m","b","o">>
PipeUrl == <<"h","t","t","p","s",":","/","/","x",".","l","k","/","a","d","/","1">>

RealMethods == {"real", "sync_real"}
SyntheticMethods == {"mock", "mock_reliable"}

PipeRecord(old_keys, title, price, mileage, year, method) ==
    IF old_keys
    THEN ("Ad Title" :> title) @@ ("Price (in LKR)" :> price)
         @@ ("Location" :> PipeLocation) @@ ("Mileage (in km)" :> mileage)
         @@ ("Year of Manufacture" :> year) @@ ("URL" :> PipeUrl)
         @@ ("_metadata" :> [extraction_method |-> method])
    ELSE [ad_title |-> title, price_lkr |-> price, location |-> PipeLocation,
          mileage_km |-> mileage, year |-> year, url |-> PipeUrl,
          _metadata |-> [extraction_method |-> method]]

NoPipeOut == [validated |-> <<>>, rows |-> {}, api |-> <<>>]

PipeInit ==
    /\ n_pc = "idle"
    /\ n_in = [real |-> <<>>, synthetic |-> <<>>]
    /\ n_out = [real |-> NoPipeOut, synthetic |-> NoPipeOut]

\* two analyses side by side, each on an empty table: vehicle1_ads holds one
\* record, the one of a real extraction and the other the same field values
\* from a synthetic one
NCall ==
    /\ n_pc = "idle"
    /\ \E old_keys \in BOOLEAN, title \in PipeTitles, price \in PipePrices,
          mileage \in PipeMileages, year \in PipeYears,
          rm \in RealMethods, sm \in SyntheticMethods :
         n_in' = [real |-> <<PipeRecord(old_keys, title, price, mileage, year, rm)>>,
                  synthetic |-> <<PipeRecord(old_keys, title, price, mileage, year, sm)>>]
    /\ n_pc' = "called"
    /\ UNCHANGED n_out
    /\ UNCHANGED <<crewVars, storeVars, batchVars, hybridVars, simpleVars, engineVars,
                   scorerVars, classVars>>

NParse ==
    /\ n_pc = "called"
    /\ n_out' = [w \in {"real", "synthetic"} |->
                    [n_out[w] EXCEPT !.validated = ParseAndValidateAds(n_in[w])]]
    /\ n_pc' = "validated"
    /\ UNCHANGED n_in
    /\ UNCHANGED <<crewVars, storeVars, batchVars, hybridVars, simpleVars, engineVars,
                   scorerVars, classVars>>

NStore ==
    /\ n_pc = "validated"
    /\ n_out' = [w \in {"real", "synthetic"} |->
                    [n_out[w] EXCEPT !.rows =
                        StoreLoop(n_out[w].validated, {}, 1, 1, V_Aqua, V_Fit)]]
    /\ n_pc' = "stored"
    /\ UNCHANGED n_in
    /\ UNCHANGED <<crewVars, storeVars, batchVars, hybridVars, simpleVars, engineVars,
                   scorerVars, classVars>>

NConvert ==
    /\ n_pc = "stored"
    /\ n_out' = [w \in {"real", "synthetic"} |->
                    [n_out[w] EXCEPT !.api =
                        AddSessionDataToAds(ConvertToAdDetailsFormat(n_out[w].validated),
                                            1, V_Aqua)]]
    /\ n_pc' = "done"
    /\ UNCHANGED n_in
    /\ UNCHANGED <<crewVars, storeVars, batchVars, hybridVars, simpleVars, engineVars,
                   scorerVars, classVars>>

PipeNext ==
    \/ NCall
    \/ NParse
    \/ NStore
    \/ NConvert

\* C14: a synthetic record that the crew validates, normalizes, converts and
\* persists stays distinguishable from a real record with the same field
\* values: the API ads or the rows of the two differ.
C14_SyntheticTagPropagates ==
    (n_pc = "done" /\ n_out.synthetic.rows # {}) =>
        \/ n_out.synthetic.api # n_out.real.api
        \/ n_out.synthetic.rows # n_out.real.rows

----------------------------------------------------------------------------
(* The extraction engines on one url: extract_ad_details_sync,             *)
(* extract_ad_details_async, SynchronousAdExtractor._extract_real_ads and  *)
(* the playwright extract_ad_details.                                      *)

S_Timeout == <<"T","i","m","e","o","u","t">>
S_TimeoutError == <<"T","i","m","e","o","u","t"," ","E","r","r","o","r">>
S_RequestError == <<"R","e","q","u","e","s","t"," ","e","r","r","o","r",":"," ">>
S_ParseError == <<"P","a","r","s","e"," ","e","r","r","o","r",":"," ">>
S_notfound == <<"n","o","t"," ","f","o","u","n","d">>
S_error == <<"e","r","r","o","r">>
S_just == <<"j","u","s","t">>
S_only == <<"o","n","l","y">>

\* the number of digits (of blanks) that follow one another from position k
RECURSIVE DigitRun(_, _)
DigitRun(s, k) == IF k <= Len(s) /\ IsDigit(s[k]) THEN 1 + DigitRun(s, k + 1) ELSE 0

RECURSIVE WsRun(_, _)
WsRun(s, k) == IF k <= Len(s) /\ s[k] \in Whitespace THEN 1 + WsRun(s, k + 1) ELSE 0

StartsWithAt(s, k, sub) == k + Len(sub) - 1 <= Len(s) /\ SubSeq(s, k, k + Len(sub) - 1) = sub

Min(a, b) == IF a <= b THEN a ELSE b

\* \s*k?m?$ from position j
UnitToEnd(s, j) ==
    SubSeq(s, j + WsRun(s, j), Len(s)) \in {<<>>, <<"k">>, <<"m">>, <<"k","m">>}

\* the end of the longest run of groups ",ddd" from position j
RECURSIVE GroupsEnd(_, _)
GroupsEnd(s, j) ==
    IF j <= Len(s) /\ s[j] = "," /\ DigitRun(s, j + 1) >= 3 THEN GroupsEnd(s, j + 4) ELSE j

\* mutant: the number without thousands grouping
KmTextUngrouped(n) == Str(n) \o S_spacekm

\* f"{n:,} km"
KmText(n) == Commas(Str(n)) \o S_spacekm

interpret_mileage(raw_mileage) ==
    LET mileage_text == Lower(Strip(raw_mileage))
        \* (?:just|only)\s*(\d{1,3})(?:\s*k?m?)?  searched
        digitsAt(k) == k + 4 + WsRun(mileage_text, k + 4)
        hits1 == {k \in 1..Len(mileage_text) :
                    /\ StartsWithAt(mileage_text, k, S_just)
                       \/ StartsWithAt(mileage_text, k, S_only)
                    /\ DigitRun(mileage_text, digitsAt(k)) >= 1}
        k1 == CHOOSE k \in hits1 : \A j \in hits1 : k <= j
        number1 == ToNat(SubSeq(mileage_text, digitsAt(k1),
                                digitsAt(k1) + Min(3, DigitRun(mileage_text, digitsAt(k1))) - 1))
        \* ^(\d{1,3})\s*k?m?$  and  ^(\d{4,})\s*k?m?$
        lead == DigitRun(mileage_text, 1)
        number2 == ToNat(SubSeq(mileage_text, 1, lead))
        \* (\d{1,3}(?:,\d{3})+)\s*km?  searched
        endAt(k) == GroupsEnd(mileage_text, k + DigitRun(mileage_text, k))
        hits3 == {k \in 1..Len(mileage_text) :
                    /\ DigitRun(mileage_text, k) \in 1..3
                    /\ endAt(k) > k + DigitRun(mileage_text, k)
                    /\ StartsWithAt(mileage_text, endAt(k) + WsRun(mileage_text, endAt(k)),
                                    <<"k">>)}
        k3 == CHOOSE k \in hits3 : \A j \in hits3 : k <= j
    IN  IF raw_mileage = <<>> \/ mileage_text \in {S_notfound, S_error, <<>>}
        THEN raw_mileage
        ELSE IF hits1 # {} /\ number1 < 500 THEN KmText(number1 * 1000)
        ELSE IF lead \in 1..3 /\ UnitToEnd(mileage_text, lead + 1)
             THEN (IF number2 < 500 THEN KmText(number2 * 1000) ELSE KmText(number2))
        ELSE IF hits3 # {} THEN SubSeq(mileage_text, k3, endAt(k3) - 1) \o S_spacekm
        ELSE IF lead >= 4 /\ UnitToEnd(mileage_text, lead + 1) THEN KmText(number2)
        ELSE raw_mileage

\* x.strip() if x else "Not Found"
StripOrNotFound(x) == IF x # <<>> THEN Strip(x) ELSE NotFoundT

\* playwright extract_ad_details: the fields are what the first selector
\* that finds text gives, <<>> when none does
PlaywrightExtract(u) ==
    LET failed == u.fetch # "ok"
        all == IF u.fetch = "Timeout" THEN NotFoundT ELSE S_ErrorColon \o u.exc
        orNotFound(x) == IF x # <<>> THEN x ELSE NotFoundT
        title == IF failed THEN all ELSE orNotFound(u.title)
        price == IF failed THEN all ELSE orNotFound(u.price)
        location == IF failed THEN all ELSE orNotFound(u.location)
        mileage == IF failed THEN all ELSE orNotFound(u.mileage)
        year == IF failed THEN all ELSE orNotFound(u.year)
    IN  ("Ad Title" :> StripOrNotFound(title))
        @@ ("Price (in LKR)" :> StripOrNotFound(price))
        @@ ("Location" :> StripOrNotFound(location))
        @@ ("Mileage (in km)" :> (IF mileage # <<>> THEN interpret_mileage(mileage)
                                  ELSE NotFoundT))
        @@ ("Year of Manufacture" :> StripOrNotFound(year))
        @@ ("URL" :> u.url)

SyncSentinels == {NotFoundT, S_Error, S_Timeout}

NotSentinel(ad, field) == DictGet(ad, field, NotFoundT) \notin SyncSentinels

assess_single_ad_quality(ad) ==
    LET important_fields == {"Ad Title", "Price (in LKR)", "Location", "Year of Manufacture"}
        found_fields == Cardinality({f \in important_fields : NotSentinel(ad, f)})
    IN  IF found_fields * 10 >= 9 * Cardinality(important_fields) THEN "excellent"
        ELSE IF found_fields * 10 >= 7 * Cardinality(important_fields) THEN "good"
        ELSE IF found_fields * 10 >= 5 * Cardinality(important_fields) THEN "fair"
        ELSE "poor"

calculate_single_ad_confidence(ad) ==
    (IF NotSentinel(ad, "Ad Title") THEN 30 ELSE 0)
    + (IF NotSentinel(ad, "Price (in LKR)") THEN 25 ELSE 0)
    + (IF NotSentinel(ad, "Location") THEN 20 ELSE 0)
    + (IF NotSentinel(ad, "Year of Manufacture") THEN 15 ELSE 0)
    + (IF NotSentinel(ad, "Mileage (in km)") THEN 10 ELSE 0)

count_extracted_fields(ad) ==
    Cardinality({f \in {"Ad Title", "Price (in LKR)", "Location", "Mileage (in km)",
                        "Year of Manufacture"} : NotSentinel(ad, f)})

\* int(mileage_str.replace(',', '')) of the digits and commas a mileage
\* pattern matched, small numbers taken as thousands
format_mileage(mileage_str) ==
    LET clean_mileage == ToNat(Remove(mileage_str, S_comma))
    IN  IF ~AllDigits(Remove(mileage_str, S_comma)) \/ Remove(mileage_str, S_comma) = <<>>
        THEN mileage_str
        ELSE IF clean_mileage < 500 THEN KmText(clean_mileage * 1000)
        ELSE KmText(clean_mileage)

\* re.sub(r'[^\d,]', '', price_text)
RECURSIVE DigitsAndCommas(_)
DigitsAndCommas(s) ==
    IF s = <<>> THEN <<>>
    ELSE IF IsDigit(Head(s)) \/ Head(s) = "," THEN <<Head(s)>> \o DigitsAndCommas(Tail(s))
    ELSE DigitsAndCommas(Tail(s))

\* _extract_ad_from_soup: title, price and location are the text of the
\* first selector that finds any (<<>> when none does), mileage and year the
\* group the patterns match in the page's text
extract_ad_from_soup(u) ==
    LET ad_data ==
            ("Ad Title" :> (IF u.title # <<>> THEN u.title ELSE NotFoundT))
            @@ ("Price (in LKR)" :> (IF DigitsAndCommas(u.price) # <<>>
                                     THEN DigitsAndCommas(u.price) ELSE NotFoundT))
            @@ ("Location" :> (IF u.location # <<>> THEN u.location ELSE NotFoundT))
            @@ ("Mileage (in km)" :> (IF u.mileage # <<>> THEN format_mileage(u.mileage)
                                      ELSE NotFoundT))
            @@ ("Year of Manufacture" :> (IF u.year # <<>> THEN u.year ELSE NotFoundT))
            @@ ("URL" :> u.url)
            @@ ("Condition" :> NotFoundT)
            @@ ("Transmission" :> NotFoundT)
            @@ ("Fuel Type" :> NotFoundT)
    IN  ad_data @@ ("_metadata" :>
            [extraction_method |-> "sync_real",
             quality |-> assess_single_ad_quality(ad_data),
             confidence |-> calculate_single_ad_confidence(ad_data),
             fields_extracted |-> count_extracted_fields(ad_data)])

create_timeout_ad(url) ==
    ("Ad Title" :> S_TimeoutError) @@ ("Price (in LKR)" :> S_Timeout)
    @@ ("Location" :> S_Timeout) @@ ("Mileage (in km)" :> S_Timeout)
    @@ ("Year of Manufacture" :> S_Timeout) @@ ("URL" :> url)
    @@ ("_metadata" :> [extraction_method |-> "sync_real", quality |-> "poor",
                        confidence |-> 0, error_type |-> "timeout"])

create_error_ad(url, error_msg) ==
    ("Ad Title" :> S_ErrorColon \o error_msg) @@ ("Price (in LKR)" :> S_Error)
    @@ ("Location" :> S_Error) @@ ("Mileage (in km)" :> S_Error)
    @@ ("Year of Manufacture" :> S_Error) @@ ("URL" :> url)
    @@ ("_metadata" :> [extraction_method |-> "sync_real", quality |-> "poor",
                        confidence |-> 0, error_type |-> "extraction_error"])

\* the body of the loop of _extract_real_ads for one url
ExtractRealAd(u) ==
    CASE u.fetch = "ok" -> extract_ad_from_soup(u)
      [] u.fetch = "Timeout" -> create_timeout_ad(u.url)
      [] u.fetch = "RequestException" -> create_error_ad(u.url, S_RequestError \o u.exc)
      [] OTHER -> create_error_ad(u.url, S_ParseError \o u.exc)

FetchKinds == {"ok", "Timeout", "RequestException", "Exception"}

\* pages for the requests scrapers (opaque fields are strings) ...
RequestsPages ==
    {Page("e1", fetch, E_Refused, title, price, "Colombo", mileage, "2015") :
        fetch \in FetchKinds, title \in {T_AquaSale, NotFoundT},
        price \in {"Rs 4,250,000", "Not Found"}, mileage \in {"80,000 km", "Not Found"}}

\* ... and for the engines that work on the text of the fields
TextPages ==
    {Page("e2", fetch, E_Refused, title, price, <<"C","o","l","o","m","b","o">>, mileage, <<"2","0","1","5">>) :
        fetch \in FetchKinds, title \in {T_AquaSale, <<>>},
        price \in {<<"R","s"," ","4",",","2","5","0",",","0","0","0">>, <<>>},
        mileage \in {<<"8","0",",","0","0","0">>, <<"4","5">>, <<"j","u","s","t"," ","5","0","k","m">>, <<>>}}

NoEngineIn == [engine |-> "none", page |-> U_ok]
NoEngineOut == [raised |-> FALSE, record |-> <<>>]

EngineInit ==
    /\ e_pc = "idle"
    /\ e_in = NoEngineIn
    /\ e_out = NoEngineOut

\* an engine is called on a url
ECall ==
    /\ e_pc = "idle"
    /\ \/ \E engine \in {"sync", "async"}, page \in RequestsPages :
             e_in' = [engine |-> engine, page |-> page]
       \/ \E engine \in {"sync_extractor", "playwright"}, page \in TextPages :
             e_in' = [engine |-> engine, page |-> page]
    /\ e_pc' = "called"
    /\ UNCHANGED e_out
    /\ UNCHANGED <<crewVars, storeVars, batchVars, hybridVars, simpleVars, pipeVars,
                   scorerVars, classVars>>

ERequests ==
    /\ e_pc = "called"
    /\ e_in.engine \in {"sync", "async"}
    /\ e_out' = [raised |-> ExtractAdDetails(e_in.page).raised,
                 record |-> ExtractAdDetails(e_in.page).value]
    /\ e_pc' = "done"
    /\ UNCHANGED e_in
    /\ UNCHANGED <<crewVars, storeVars, batchVars, hybridVars, simpleVars, pipeVars,
                   scorerVars, classVars>>

ESyncExtractor ==
    /\ e_pc = "called"
    /\ e_in.engine = "sync_extractor"
    /\ e_out' = [raised |-> FALSE, record |-> ExtractRealAd(e_in.page)]
    /\ e_pc' = "done"
    /\ UNCHANGED e_in
    /\ UNCHANGED <<crewVars, storeVars, batchVars, hybridVars, simpleVars, pipeVars,
                   scorerVars, classVars>>

EPlaywright ==
    /\ e_pc = "called"
    /\ e_in.engine = "playwright"
    /\ e_out' = [raised |-> FALSE, record |-> PlaywrightExtract(e_in.page)]
    /\ e_pc' = "done"
    /\ UNCHANGED e_in
    /\ UNCHANGED <<crewVars, storeVars, batchVars, hybridVars, simpleVars, pipeVars,
                   scorerVars, classVars>>

EngineNext ==
    \/ ECall
    \/ ERequests
    \/ ESyncExtractor
    \/ EPlaywright

\* a text that marks a failure: the sentinel 'Error' or 'Timeout', or an
\* error message 'Error: ...'
FailureText(x) == x \in {S_Error, S_Timeout} \/ StartsWithAt(x, 1, S_ErrorColon)

\* the record's price, location, mileage and year all mark a failure
FailureSentinels(engine, record) ==
    IF engine \in {"sync", "async"}
    THEN \A f \in {"price_lkr", "location", "mileage_km", "year"} :
            record[f] \in {"Error", "Timeout"}
    ELSE \A f \in {"Price (in LKR)", "Location", "Mileage (in km)",
                   "Year of Manufacture"} : FailureText(record[f])

\* C15: in every engine, a network or timeout failure while fetching a url
\* gives a record (no exception) of that url whose price, location, mileage
\* and year are the sentinel 'Error' or 'Timeout', never 'Not Found'.
C15_FetchFailureSentinel ==
    (e_pc = "done" /\ e_in.page.fetch \in {"Timeout", "RequestException"}) =>
        /\ ~e_out.raised
        /\ DictGet(e_out.record, "URL", DictGet(e_out.record, "url", "")) = e_in.page.url
        /\ FailureSentinels(e_in.engine, e_out.record)

----------------------------------------------------------------------------
(* The record scorers: _assess_ad_quality and _calculate_confidence of     *)
(* AIFriendlyAdDetailsExtractor, _assess_single_ad_quality and             *)
(* _calculate_single_ad_confidence of SynchronousAdExtractor.              *)

\* what a field of a record holds: a value, a sentinel or nothing; a title
\* can also hold an error message
FieldKinds == {"value", "Not Found", "Error", "Timeout", "empty"}
TitleKinds == FieldKinds \cup {"message"}

ScoredFields == {"title", "price", "location", "mileage", "year"}

TitleText(kind) ==
    CASE kind = "value" -> T_AquaSale
      [] kind = "Not Found" -> NotFoundT
      [] kind = "Error" -> S_Error
      [] kind = "Timeout" -> S_Timeout
      [] kind = "message" -> S_ErrorColon \o E_Refused
      [] OTHER -> <<>>

\* a field of the records of the requests scrapers
FieldString(kind, value) ==
    CASE kind = "value" -> value
      [] kind = "empty" -> ""
      [] OTHER -> kind

\* a field of the records of SynchronousAdExtractor
FieldText(kind, value) ==
    CASE kind = "value" -> value
      [] kind = "Not Found" -> NotFoundT
      [] kind = "Error" -> S_Error
      [] kind = "Timeout" -> S_Timeout
      [] OTHER -> <<>>

\* the record of the given kinds as the requests scrapers build it ...
ScraperRecord(kinds) ==
    [ad_title |-> TitleText(kinds.title),
     price_lkr |-> FieldString(kinds.price, "Rs 4,250,000"),
     location |-> FieldString(kinds.location, "Colombo"),
     mileage_km |-> FieldString(kinds.mileage, "80,000 km"),
     year |-> FieldString(kinds.year, "2015"),
     url |-> "s1"]

\* ... and as SynchronousAdExtractor builds it
SyncRecord(kinds) ==
    ("Ad Title" :> TitleText(kinds.title))
    @@ ("Price (in LKR)" :> FieldText(kinds.price, <<"4",",","2","5","0",",","0","0","0">>))
    @@ ("Location" :> FieldText(kinds.location, <<"C","o","l","o","m","b","o">>))
    @@ ("Mileage (in km)" :> FieldText(kinds.mileage, <<"8","0",",","0","0","0"," ","k","m">>))
    @@ ("Year of Manufacture" :> FieldText(kinds.year, <<"2","0","1","5">>))
    @@ ("URL" :> "s1")

NoScore == [confidence |-> 0, quality |-> "none"]

ScorerInit ==
    /\ s_pc = "idle"
    /\ s_in = [f \in ScoredFields |-> "Not Found"]
    /\ s_out = [ai |-> NoScore, sync |-> NoScore]

\* a record is given to the scorers
SCall ==
    /\ s_pc = "idle"
    /\ \E title \in TitleKinds, price \in FieldKinds, location \in FieldKinds,
          mileage \in FieldKinds, year \in FieldKinds :
         s_in' = [title |-> title, price |-> price, location |-> location,
                  mileage |-> mileage, year |-> year]
    /\ s_pc' = "called"
    /\ UNCHANGED s_out
    /\ UNCHANGED <<crewVars, storeVars, batchVars, hybridVars, simpleVars, pipeVars,
                   engineVars, classVars>>

\* _process_ad_data scores the record
SProcessAdData ==
    /\ s_pc = "called"
    /\ LET metadata == ProcessAdData(ScraperRecord(s_in))["_metadata"]
       IN  s_out' = [s_out EXCEPT !.ai = [confidence |-> metadata.confidence,
                                          quality |-> metadata.quality]]
    /\ s_pc' = "ai"
    /\ UNCHANGED s_in
    /\ UNCHANGED <<crewVars, storeVars, batchVars, hybridVars, simpleVars, pipeVars,
                   engineVars, classVars>>

\* the metadata _extract_ad_from_soup computes for the record
SSingleAd ==
    /\ s_pc = "ai"
    /\ s_out' = [s_out EXCEPT !.sync =
                    [confidence |-> calculate_single_ad_confidence(SyncRecord(s_in)),
                     quality |-> assess_single_ad_quality(SyncRecord(s_in))]]
    /\ s_pc' = "done"
    /\ UNCHANGED s_in
    /\ UNCHANGED <<crewVars, storeVars, batchVars, hybridVars, simpleVars, pipeVars,
                   engineVars, classVars>>

ScorerNext ==
    \/ SCall
    \/ SProcessAdData
    \/ SSingleAd

\* C16: in both scorers a record whose five fields are all sentinels
\* ('Not Found', 'Error', 'Timeout' or empty) has confidence 0, and every
\* confidence lies between 0 and 1.
C16_SentinelsScoreZero ==
    s_pc = "done" =>
        /\ s_out.ai.confidence \in 0..100
        /\ s_out.sync.confidence \in 0..100
        /\ (\A f \in ScoredFields : s_in[f] \in {"Not Found", "Error", "Timeout", "empty"}) =>
              (s_out.ai.confidence = 0 /\ s_out.sync.confidence = 0)

\* the weights the scorers are said to use
SpecWeight(f) ==
    CASE f = "title" -> 30
      [] f = "price" -> 25
      [] f = "location" -> 20
      [] f = "mileage" -> 15
      [] OTHER -> 10

RECURSIVE SumWeights(_)
SumWeights(fields) ==
    IF fields = {} THEN 0
    ELSE LET f == CHOOSE x \in fields : TRUE
         IN  SpecWeight(f) + SumWeights(fields \ {f})

\* a record with a title whose other fields hold a value or 'Not Found'
PlainRecord == s_in.title = "value" /\ \A f \in ScoredFields : s_in[f] \in {"value", "Not Found"}

\* C17: for every subset of present fields (the others 'Not Found'), both
\* scorers give the sum of the weights title 0.30, price 0.25, location
\* 0.20, mileage 0.15, year 0.10 over the present fields.
C17_ScorerWeights ==
    (s_pc = "done" /\ PlainRecord) =>
        /\ s_out.ai.confidence = SumWeights({f \in ScoredFields : s_in[f] = "value"})
        /\ s_out.sync.confidence = SumWeights({f \in ScoredFields : s_in[f] = "value"})

TierOf(confidence) ==
    IF confidence >= 90 THEN "excellent"
    ELSE IF confidence >= 70 THEN "good"
    ELSE IF confidence >= 50 THEN "fair"
    ELSE "poor"

\* C18: the quality tier of a record is the tier of its confidence:
\* excellent from 0.9, good from 0.7, fair from 0.5, poor below.
C18_TierFollowsConfidence ==
    (s_pc = "done" /\ PlainRecord) =>
        /\ s_out.ai.quality = TierOf(s_out.ai.confidence)
        /\ s_out.sync.quality = TierOf(s_out.sync.confidence)

----------------------------------------------------------------------------
(* The sale classifiers: _filter_sale_ads_only and _is_vehicle_sale_ad of  *)
(* SriLankanAdScraperTool, _is_sale_ad of AIFriendlyAdDetailsExtractor.    *)

MaxClassUrls == 2

url_exclude_keywords ==
    <<<<"r","e","n","t">>,
      <<"r","e","n","t","a","l">>,
      <<"h","i","r","e">>,
      <<"l","e","a","s","e">>,
      <<"l","e","a","s","i","n","g">>,
      <<"p","a","r","t","s">>,
      <<"s","p","a","r","e">>,
      <<"a","c","c","e","s","s","o","r","i","e","s">>,
      <<"t","y","r","e">>,
      <<"t","i","r","e">>,
      <<"b","a","t","t","e","r","y">>,
      <<"s","e","r","v","i","c","e">>,
      <<"r","e","p","a","i","r">>,
      <<"m","a","i","n","t","e","n","a","n","c","e">>,
      <<"w","o","r","k","s","h","o","p">>,
      <<"i","n","s","u","r","a","n","c","e">>,
      <<"f","i","n","a","n","c","e">>,
      <<"l","o","a","n">>>>

url_include_keywords ==
    <<<<"s","a","l","e">>,
      <<"s","e","l","l">>,
      <<"s","e","l","l","i","n","g">>,
      <<"f","o","r","-","s","a","l","e">>>>

exclude_in_title ==
    <<<<"r","e","n","t">>,
      <<"r","e","n","t","a","l">>,
      <<"h","i","r","e">>,
      <<"l","e","a","s","e">>,
      <<"p","a","r","t","s">>,
      <<"s","p","a","r","e">>,
      <<"a","c","c","e","s","s","o","r","i","e","s">>,
      <<"s","e","r","v","i","c","e">>,
      <<"r","e","p","a","i","r">>,
      <<"w","o","r","k","s","h","o","p">>>>

include_in_title ==
    <<<<"s","a","l","e">>,
      <<"s","e","l","l">>,
      <<"s","e","l","l","i","n","g">>>>

\* any(keyword in text for keyword in keywords)
AnyIn(keywords, text) == \E k \in 1..Len(keywords) : Contains(keywords[k], text)

\* _is_vehicle_sale_ad: the page is fetched and its h1 read (<<>>: no h1)
IsVehicleSaleAd(page) ==
    IF page.fetch # "ok" THEN TRUE
    ELSE LET title == Lower(page.h1)
         IN  IF AnyIn(exclude_in_title, title) THEN FALSE
             ELSE IF AnyIn(include_in_title, title) THEN TRUE
             ELSE TRUE

\* mutant: a url with a sale keyword is never excluded by its keywords
HasExcludeKeywordsUnlessSale(url) ==
    AnyIn(url_exclude_keywords, Lower(url)) /\ ~AnyIn(url_include_keywords, Lower(url))

HasExcludeKeywords(url) == AnyIn(url_exclude_keywords, Lower(url))

RECURSIVE FilterSaleAdsOnly(_)
FilterSaleAdsOnly(pages) ==
    IF pages = <<>> THEN <<>>
    ELSE IF ~HasExcludeKeywords(Head(pages).url) /\ IsVehicleSaleAd(Head(pages))
         THEN <<Head(pages).url>> \o FilterSaleAdsOnly(Tail(pages))
         ELSE FilterSaleAdsOnly(Tail(pages))

\* urls .../ad/toyota-aqua-<word>-colombo-637 and
\* .../ad/toyota-aqua-for-<word>-for-sale-colombo-637
U_head == <<"h","t","t","p","s",":","/","/","i","k","m","a","n",".","l","k","/","e","n","/","a","d","/","t","o","y","o","t","a","-","a","q","u","a","-">>
U_for == <<"f","o","r","-">>
U_tail == <<"-","c","o","l","o","m","b","o","-","6","3","7">>
U_saletail == <<"-","f","o","r","-","s","a","l","e","-","c","o","l","o","m","b","o","-","6","3","7">>

UrlWords ==
    {url_exclude_keywords[k] : k \in 1..Len(url_exclude_keywords)}
    \cup {<<"2","0","1","5">>, <<"R","E","N","T">>, <<"T","y","r","e">>}

ClassUrls ==
    {U_head \o w \o U_tail : w \in UrlWords}
    \cup {U_head \o U_for \o w \o U_saletail : w \in UrlWords}

H_AquaForSale == <<"T","o","y","o","t","a"," ","A","q","u","a"," ","2","0","1","5"," ","f","o","r"," ","S","a","l","e">>
H_AquaForRent == <<"T","o","y","o","t","a"," ","A","q","u","a"," ","f","o","r"," ","R","e","n","t">>

ClassPage(url, fetch, h1) == [url |-> url, fetch |-> fetch, h1 |-> h1]

\* a url with the page behind it: unreachable, or reachable with the h1 read
ClassPages ==
    {ClassPage(url, "RequestException", <<>>) : url \in ClassUrls}
    \cup {ClassPage(url, "ok", h1) : url \in ClassUrls, h1 \in {H_AquaForSale, H_AquaForRent}}

ClassPageLists == UNION {[1..n -> ClassPages] : n \in 1..MaxClassUrls}

\* titles  Toyota Aqua <word>  and  Toyota Aqua <word> for sale
T_head == <<"T","o","y","o","t","a"," ","A","q","u","a"," ">>
T_forsale == <<" ","f","o","r"," ","s","a","l","e">>

TitleWords == UrlWords \cup {<<"B","a","t","t","e","r","y">>, <<"h","y","b","r","i","d">>}

ClassTitles ==
    {T_head \o w : w \in TitleWords} \cup {T_head \o w \o T_forsale : w \in TitleWords}

NoClassOut == [filtered |-> <<>>, scraper |-> TRUE, extractor |-> TRUE]

ClassInit ==
    /\ k_pc = "idle"
    /\ k_in = [kind |-> "none", pages |-> <<>>]
    /\ k_out = NoClassOut

\* _filter_sale_ads_only is called with a list of urls
KCallFilter ==
    /\ k_pc = "idle"
    /\ \E pages \in ClassPageLists : k_in' = [kind |-> "filter", pages |-> pages]
    /\ k_pc' = "called"
    /\ UNCHANGED k_out
    /\ UNCHANGED <<crewVars, storeVars, batchVars, hybridVars, simpleVars, pipeVars,
                   engineVars, scorerVars>>

KFilter ==
    /\ k_pc = "called"
    /\ k_in.kind = "filter"
    /\ k_out' = [k_out EXCEPT !.filtered = FilterSaleAdsOnly(k_in.pages)]
    /\ k_pc' = "done"
    /\ UNCHANGED k_in
    /\ UNCHANGED <<crewVars, storeVars, batchVars, hybridVars, simpleVars, pipeVars,
                   engineVars, scorerVars>>

\* a page with a given title reaches the title classifiers
KCallTitle ==
    /\ k_pc = "idle"
    /\ \E title \in ClassTitles :
          k_in' = [kind |-> "title", pages |-> <<ClassPage(PipeUrl, "ok", title)>>]
    /\ k_pc' = "called"
    /\ UNCHANGED k_out
    /\ UNCHANGED <<crewVars, storeVars, batchVars, hybridVars, simpleVars, pipeVars,
                   engineVars, scorerVars>>

KIsVehicleSaleAd ==
    /\ k_pc = "called"
    /\ k_in.kind = "title"
    /\ k_out' = [k_out EXCEPT !.scraper = IsVehicleSaleAd(k_in.pages[1])]
    /\ k_pc' = "scraper"
    /\ UNCHANGED k_in
    /\ UNCHANGED <<crewVars, storeVars, batchVars, hybridVars, simpleVars, pipeVars,
                   engineVars, scorerVars>>

KIsSaleAd ==
    /\ k_pc = "scraper"
    /\ k_out' = [k_out EXCEPT !.extractor =
                    IsSaleAd([ad_title |-> k_in.pages[1].h1, url |-> k_in.pages[1].url])]
    /\ k_pc' = "done"
    /\ UNCHANGED k_in
    /\ UNCHANGED <<crewVars, storeVars, batchVars, hybridVars, simpleVars, pipeVars,
                   engineVars, scorerVars>>

ClassNext ==
    \/ KCallFilter
    \/ KFilter
    \/ KCallTitle
    \/ KIsVehicleSaleAd
    \/ KIsSaleAd

\* the reject keywords and the sale markers of the specification
RejectKeywords ==
    <<<<"r","e","n","t">>,
      <<"r","e","n","t","a","l">>,
      <<"h","i","r","e">>,
      <<"l","e","a","s","e">>,
      <<"p","a","r","t","s">>,
      <<"s","p","a","r","e">>,
      <<"a","c","c","e","s","s","o","r","i","e","s">>,
      <<"t","y","r","e">>,
      <<"t","i","r","e">>,
      <<"b","a","t","t","e","r","y">>,
      <<"s","e","r","v","i","c","e">>,
      <<"r","e","p","a","i","r">>,
      <<"m","a","i","n","t","e","n","a","n","c","e">>,
      <<"w","o","r","k","s","h","o","p">>,
      <<"i","n","s","u","r","a","n","c","e">>,
      <<"f","i","n","a","n","c","e">>,
      <<"l","o","a","n">>>>

SaleMarkers ==
    <<<<"s","a","l","e">>,
      <<"s","e","l","l">>,
      <<"s","e","l","l","i","n","g">>,
      <<"f","o","r","-","s","a","l","e">>>>

InSeq(x, seq) == \E k \in 1..Len(seq) : seq[k] = x

\* C19 as stated: _filter_sale_ads_only rejects every url that contains, in
\* any case, a keyword of the reject list, sale marker or not, and accepts a
\* url without such a keyword whose title check fails on a network error.
C19_UrlClassifier ==
    (k_pc = "done" /\ k_in.kind = "filter") =>
        \A i \in 1..Len(k_in.pages) :
            /\ AnyIn(RejectKeywords, Lower(k_in.pages[i].url)) =>
                  ~InSeq(k_in.pages[i].url, k_out.filtered)
            /\ (~AnyIn(RejectKeywords, Lower(k_in.pages[i].url))
                    /\ k_in.pages[i].fetch # "ok") =>
                  InSeq(k_in.pages[i].url, k_out.filtered)

\* the reject list with the keyword 'leasing'
RejectKeywordsWithLeasing == Append(RejectKeywords, <<"l","e","a","s","i","n","g">>)

\* C19 amended: _filter_sale_ads_only rejects every url that contains, in
\* any case, a keyword of the reject list or 'leasing', sale marker or not,
\* and accepts a url without any of them whose title check fails on a
\* network error.
C19_UrlClassifierAmended ==
    (k_pc = "done" /\ k_in.kind = "filter") =>
        \A i \in 1..Len(k_in.pages) :
            /\ AnyIn(RejectKeywordsWithLeasing, Lower(k_in.pages[i].url)) =>
                  ~InSeq(k_in.pages[i].url, k_out.filtered)
            /\ (~AnyIn(RejectKeywordsWithLeasing, Lower(k_in.pages[i].url))
                    /\ k_in.pages[i].fetch # "ok") =>
                  InSeq(k_in.pages[i].url, k_out.filtered)

\* a url with a reject keyword and a sale marker was rejected, and a url
\* without reject keyword whose page could not be fetched was accepted
C19_Witness ==
    /\ k_pc = "done"
    /\ k_in.kind = "filter"
    /\ Len(k_in.pages) = 2
    /\ AnyIn(RejectKeywordsWithLeasing, Lower(k_in.pages[1].url))
    /\ AnyIn(SaleMarkers, Lower(k_in.pages[1].url))
    /\ ~AnyIn(RejectKeywordsWithLeasing, Lower(k_in.pages[2].url))
    /\ k_in.pages[2].fetch # "ok"
    /\ k_out.filtered = <<k_in.pages[2].url>>

\* C20: both title classifiers reject a title that contains a keyword of
\* the full reject list, whatever sale keywords it also contains.
C20_TitleClassifier ==
    (k_pc = "done" /\ k_in.kind = "title"
        /\ AnyIn(RejectKeywords, Lower(k_in.pages[1].h1))) =>
        (~k_out.scraper /\ ~k_out.extractor)

-----------------------------------------------------------------------------
(* Discovery: SriLankanAdScraperTool._find_vehicle_ads *)

MaxMockDraws == 3

\* str.replace(old, new) for a one-character old
ReplaceChar(s, old, new) ==
    IF s = <<>> THEN <<>>
    ELSE LET F[k \in 0..Len(s)] ==
                 IF k = 0 THEN <<>>
                 ELSE F[k - 1] \o (IF s[k] = old THEN new ELSE <<s[k]>>)
         IN  F[Len(s)]

\* len(s.split(sep)) for a one-character sep
SplitCount(s, sep) == Cardinality({k \in 1..Len(s) : s[k] = sep}) + 1

\* len([x for x in s.split(sep) if x])
NonEmptySplitCount(s, sep) ==
    Cardinality({k \in 1..Len(s) : s[k] # sep /\ (k = 1 \/ s[k - 1] = sep)})

\* the elements of a list that satisfy a test, in order
SelectInOrder(seq, Test(_)) ==
    LET F[k \in 0..Len(seq)] ==
            IF k = 0 THEN <<>>
            ELSE LET kept == F[k - 1]
                 IN  IF Test(seq[k]) THEN Append(kept, seq[k]) ELSE kept
    IN  F[Len(seq)]

\* seq[:n]
Take(seq, n) == SubSeq(seq, 1, Min(n, Len(seq)))

\* the urls of a loop that appends  full_url  if full_url not in urls,
\* stopping when  limit  urls are held
AppendNew(hrefs, prefix, limit) ==
    LET full(h) == IF StartsWithAt(h, 1, <<"h","t","t","p">>) THEN h ELSE prefix \o h
        F[k \in 0..Len(hrefs)] ==
            IF k = 0 THEN <<>>
            ELSE LET urls == F[k - 1]
                 IN  IF Len(urls) >= limit \/ InSeq(full(hrefs[k]), urls)
                     THEN urls
                     ELSE Append(urls, full(hrefs[k]))
    IN  F[Len(hrefs)]

S_ikman == <<"h","t","t","p","s",":","/","/","i","k","m","a","n",".","l","k">>
S_riyasewana == <<"h","t","t","p","s",":","/","/","r","i","y","a","s","e","w","a","n","a",".","c","o","m">>
S_patpat == <<"h","t","t","p","s",":","/","/","p","a","t","p","a","t",".","l","k">>

\* _search_ikman: the first five links whose href matches /en/ad/
search_ikman(page) ==
    IF page.fetch # "ok" THEN <<>>
    ELSE LET matches(h) == Contains(<<"/","e","n","/","a","d","/">>, h)
             links == Take(SelectInOrder(page.hrefs, matches), 5)
             nonempty(h) == h # <<>>
         IN  AppendNew(SelectInOrder(links, nonempty), S_ikman, Len(links))

\* _search_riyasewana: the first three links whose href matches /ad/
search_riyasewana(page) ==
    IF page.fetch # "ok" THEN <<>>
    ELSE LET matches(h) == Contains(<<"/","a","d","/">>, h)
             links == Take(SelectInOrder(page.hrefs, matches), 3)
             nonempty(h) == h # <<>>
         IN  AppendNew(SelectInOrder(links, nonempty), S_riyasewana, Len(links))

patpat_search_skip == <<<<"/","v","e","h","i","c","l","e","/","a","l","l">>, <<"/","v","e","h","i","c","l","e","/","b","i","k","e">>, <<"/","v","e","h","i","c","l","e","/","c","a","r">>, <<"/","v","e","h","i","c","l","e","?">>>>

\* _search_patpat: up to three links to a specific vehicle
search_patpat(page) ==
    IF page.fetch # "ok" THEN <<>>
    ELSE LET listing(h) == /\ h # <<>>
                           /\ Contains(<<"/","v","e","h","i","c","l","e","/">>, h)
                           /\ ~AnyIn(patpat_search_skip, h)
                           /\ SplitCount(h, "/") > 3
         IN  AppendNew(SelectInOrder(page.hrefs, listing), S_patpat, 3)

patpat_filter_skip ==
    <<<<"/","v","e","h","i","c","l","e","/","a","l","l">>, <<"/","v","e","h","i","c","l","e","/","b","i","k","e">>, <<"/","v","e","h","i","c","l","e","/","c","a","r">>, <<"/","v","e","h","i","c","l","e","/","b","u","s">>,
      <<"/","v","e","h","i","c","l","e","/","h","e","a","v","y">>, <<"/","v","e","h","i","c","l","e","/","l","a","n","d">>, <<"/","v","e","h","i","c","l","e","/","t","h","r","e","e">>, <<"/","v","e","h","i","c","l","e","/","v","a","n">>>>

\* the test of the loop "Filter valid ad URLs from all sites"
IsValidAdUrl(url) ==
    IF Contains(<<"/","a","d","/">>, url)
       /\ (Contains(<<"i","k","m","a","n",".","l","k">>, url) \/ Contains(<<"r","i","y","a","s","e","w","a","n","a",".","c","o","m">>, url))
    THEN TRUE
    ELSE IF Contains(<<"/","v","e","h","i","c","l","e","/">>, url) /\ Contains(<<"p","a","t","p","a","t",".","l","k">>, url)
            /\ ~AnyIn(patpat_filter_skip, url)
         THEN NonEmptySplitCount(url, "/") > 4
         ELSE FALSE

mock_locations == <<<<"c","o","l","o","m","b","o">>, <<"g","a","m","p","a","h","a">>, <<"k","a","n","d","y">>, <<"n","e","g","o","m","b","o">>, <<"k","u","r","u","n","e","g","a","l","a">>, <<"g","a","l","l","e">>>>

\* one iteration of _generate_mock_urls with its four random draws:
\* the pattern (1 or 2), the location, the year and the id
MockUrl(vehicle_name, draw) ==
    LET slug == ReplaceChar(Lower(vehicle_name), " ", <<"-">>)
    IN  IF draw.pattern = 1
        THEN <<"h","t","t","p","s",":","/","/","i","k","m","a","n",".","l","k","/","e","n","/","a","d","/">> \o slug \o <<"-">> \o Str(draw.year)
             \o <<"-","f","o","r","-","s","a","l","e","-">> \o mock_locations[draw.location] \o <<"-">> \o Str(draw.id)
        ELSE <<"h","t","t","p","s",":","/","/","r","i","y","a","s","e","w","a","n","a",".","c","o","m","/","a","d","/">> \o slug \o <<"-">> \o Str(draw.year)
             \o <<"-">> \o mock_locations[draw.location] \o <<"-">> \o Str(draw.id)

generate_mock_urls(vehicle_name, draws) ==
    [i \in 1..Len(draws) |-> MockUrl(vehicle_name, draws[i])]

\* the draws explored:  random.choice(base_patterns), random.choice(locations),
\* random.choice of range(2015, 2023), random.randint(1, 99)
MockDrawPool ==
    LET all == <<[pattern |-> 1, location |-> 1, year |-> 2015, id |-> 1],
                 [pattern |-> 2, location |-> 6, year |-> 2022, id |-> 99],
                 [pattern |-> 1, location |-> 5, year |-> 2018, id |-> 42],
                 [pattern |-> 2, location |-> 3, year |-> 2020, id |-> 7]>>
    IN  {all[i] : i \in 1..Min(MaxMockDraws, 4)}

\* _find_vehicle_ads after the three searches
FindFiltered(ad_urls) == SelectInOrder(ad_urls, IsValidAdUrl)

\* search result pages
FindPage(fetch, hrefs) == [fetch |-> fetch, hrefs |-> hrefs]

I_sale1 == <<"/","e","n","/","a","d","/","t","o","y","o","t","a","-","a","q","u","a","-","2","0","1","5","-","f","o","r","-","s","a","l","e","-","c","o","l","o","m","b","o","-","1">>
I_sale2 == <<"h","t","t","p","s",":","/","/","i","k","m","a","n",".","l","k","/","e","n","/","a","d","/","t","o","y","o","t","a","-","a","q","u","a","-","2","0","1","6","-","f","o","r","-","s","a","l","e","-","k","a","n","d","y","-","2">>
I_rent == <<"/","e","n","/","a","d","/","t","o","y","o","t","a","-","a","q","u","a","-","f","o","r","-","r","e","n","t","-","c","o","l","o","m","b","o","-","3">>
I_parts == <<"/","e","n","/","a","d","/","t","o","y","o","t","a","-","a","q","u","a","-","s","p","a","r","e","-","p","a","r","t","s","-","g","a","l","l","e","-","4">>
I_sale5 == <<"/","e","n","/","a","d","/","t","o","y","o","t","a","-","a","q","u","a","-","2","0","1","4","-","f","o","r","-","s","a","l","e","-","g","a","l","l","e","-","5">>
I_sale6 == <<"/","e","n","/","a","d","/","t","o","y","o","t","a","-","a","q","u","a","-","2","0","1","3","-","f","o","r","-","s","a","l","e","-","m","a","t","a","r","a","-","6">>
I_category == <<"/","e","n","/","a","d","s","/","s","r","i","-","l","a","n","k","a","/","c","a","r","s">>
R_sale1 == <<"/","a","d","/","t","o","y","o","t","a","-","a","q","u","a","-","2","0","1","5","-","k","a","n","d","y","-","1","1">>
R_sale2 == <<"h","t","t","p","s",":","/","/","r","i","y","a","s","e","w","a","n","a",".","c","o","m","/","a","d","/","t","o","y","o","t","a","-","a","q","u","a","-","2","0","1","7","-","g","a","l","l","e","-","1","2">>
R_hire == <<"/","a","d","/","t","o","y","o","t","a","-","a","q","u","a","-","f","o","r","-","h","i","r","e","-","1","3">>
P_sale1 == <<"/","v","e","h","i","c","l","e","/","t","o","y","o","t","a","-","a","q","u","a","-","2","0","1","5","/","2","1">>
P_sale2 == <<"h","t","t","p","s",":","/","/","p","a","t","p","a","t",".","l","k","/","v","e","h","i","c","l","e","/","t","o","y","o","t","a","-","a","q","u","a","-","2","0","1","6","/","2","2">>
P_sale3 == <<"/","v","e","h","i","c","l","e","/","t","o","y","o","t","a","-","a","q","u","a","-","2","0","1","7","/","2","3">>
P_sale4 == <<"/","v","e","h","i","c","l","e","/","t","o","y","o","t","a","-","a","q","u","a","-","2","0","1","8","/","2","4">>
P_category == <<"/","v","e","h","i","c","l","e","/","c","a","r","/","t","o","y","o","t","a">>
P_short == <<"/","v","e","h","i","c","l","e","/","v","a","n">>
P_bus == <<"/","v","e","h","i","c","l","e","/","b","u","s","-","r","o","s","a","/","2","5">>

IkmanPages ==
    {FindPage("RequestException", <<>>),
     FindPage("ok", <<>>),
     FindPage("ok", <<I_category, I_sale1>>),
     FindPage("ok", <<I_sale1, I_rent, I_sale1>>),
     FindPage("ok", <<I_sale1, I_sale2, <<>>, I_parts, I_sale5, I_sale6, I_rent>>)}

RiyasewanaPages ==
    {FindPage("RequestException", <<>>),
     FindPage("ok", <<R_sale1>>),
     FindPage("ok", <<R_sale1, R_sale2, R_hire, R_sale1>>)}

PatpatPages ==
    {FindPage("RequestException", <<>>),
     FindPage("ok", <<P_category, P_short, P_sale1>>),
     FindPage("ok", <<P_sale1, P_bus, P_sale2, P_sale1, P_sale3, P_sale4>>)}

FindVehicleNames == {<<"T","o","y","o","t","a"," ","A","q","u","a">>}

NoFindOut == [ad_urls |-> <<>>, filtered_urls |-> <<>>, returned |-> <<>>]

FindInit ==
    /\ f_pc = "idle"
    /\ f_in = [vehicle_name |-> <<>>, ikman |-> FindPage("ok", <<>>),
               riyasewana |-> FindPage("ok", <<>>), patpat |-> FindPage("ok", <<>>)]
    /\ f_out = NoFindOut

\* _find_vehicle_ads is called (by _arun) with a vehicle name
FCall ==
    /\ f_pc = "idle"
    /\ \E v \in FindVehicleNames, i \in IkmanPages, r \in RiyasewanaPages, p \in PatpatPages :
           f_in' = [vehicle_name |-> v, ikman |-> i, riyasewana |-> r, patpat |-> p]
    /\ f_pc' = "called"
    /\ f_out' = NoFindOut
    /\ UNCHANGED <<storeVars, batchVars, hybridVars, toolVars, mileageVars, normVars,
                   parseVars, outputVars, runVars>>

\* the three searches extend ad_urls
FSearch ==
    /\ f_pc = "called"
    /\ f_out' = [f_out EXCEPT !.ad_urls = search_ikman(f_in.ikman)
                                          \o search_riyasewana(f_in.riyasewana)
                                          \o search_patpat(f_in.patpat)]
    /\ f_pc' = "searched"
    /\ UNCHANGED f_in
    /\ UNCHANGED <<storeVars, batchVars, hybridVars, toolVars, mileageVars, normVars,
                   parseVars, outputVars, runVars>>

\* the loop over ad_urls that keeps the urls of ad pages
FFilter ==
    /\ f_pc = "searched"
    /\ f_out' = [f_out EXCEPT !.filtered_urls = FindFiltered(f_out.ad_urls)]
    /\ f_pc' = "filtered"
    /\ UNCHANGED f_in
    /\ UNCHANGED <<storeVars, batchVars, hybridVars, toolVars, mileageVars, normVars,
                   parseVars, outputVars, runVars>>

\* three or more urls: the first eight are returned
FReturn ==
    /\ f_pc = "filtered"
    /\ Len(f_out.filtered_urls) >= 3
    /\ f_out' = [f_out EXCEPT !.returned = Take(f_out.filtered_urls, 8)]
    /\ f_pc' = "done"
    /\ UNCHANGED f_in
    /\ UNCHANGED <<storeVars, batchVars, hybridVars, toolVars, mileageVars, normVars,
                   parseVars, outputVars, runVars>>

\* fewer than three urls: mock urls fill the list up to five
FReturnWithMock ==
    /\ f_pc = "filtered"
    /\ Len(f_out.filtered_urls) < 3
    /\ \E draws \in [1..(5 - Len(f_out.filtered_urls)) -> MockDrawPool] :
           f_out' = [f_out EXCEPT !.returned =
                        Take(f_out.filtered_urls
                             \o generate_mock_urls(f_in.vehicle_name, draws), 8)]
    /\ f_pc' = "done"
    /\ UNCHANGED f_in
    /\ UNCHANGED <<storeVars, batchVars, hybridVars, toolVars, mileageVars, normVars,
                   parseVars, outputVars, runVars>>

FindNext ==
    \/ FCall
    \/ FSearch
    \/ FFilter
    \/ FReturn
    \/ FReturnWithMock

\* C21: no url returned by _find_vehicle_ads contains a reject keyword:
\* every candidate has passed the sale classifier.
C21_DiscoveryReturnsSaleOnly ==
    f_pc = "done" =>
        \A i \in 1..Len(f_out.returned) :
            /\ ~AnyIn(RejectKeywords, Lower(f_out.returned[i]))
            /\ ~HasExcludeKeywords(f_out.returned[i])

-----------------------------------------------------------------------------
(* The mileage heuristic: interpret_mileage and _format_mileage *)

MaxMileageN == 1500

\* f"{n:,}" as the specification renders a mileage
RECURSIVE Grouped(_)
Grouped(n) ==
    IF n < 1000 THEN Str(n)
    ELSE Grouped(n \div 1000) \o <<",">>
         \o <<Digits[((n \div 100) % 10) + 1], Digits[((n \div 10) % 10) + 1],
              Digits[(n % 10) + 1]>>

MileageNumbers == (0..MaxMileageN) \cup {12345, 125000, 1250000}

MileageForms ==
    {"just", "only", "bare", "km", "justkm", "onlykm", "grouped", "groupedkm",
     "justgroupedkm", "onlygrouped"}

\* the mileage text of a form for the number n
MileageText(form, n) ==
    CASE form = "just" -> <<"j","u","s","t"," ">> \o Str(n)
      [] form = "only" -> <<"o","n","l","y"," ">> \o Str(n)
      [] form = "bare" -> Str(n)
      [] form = "km" -> Str(n) \o <<" ","k","m">>
      [] form = "justkm" -> <<"J","u","s","t"," ">> \o Str(n) \o <<"k","m">>
      [] form = "onlykm" -> <<"o","n","l","y"," ">> \o Str(n) \o <<" ","k","m">>
      [] form = "grouped" -> Grouped(n)
      [] form = "groupedkm" -> Grouped(n) \o <<" ","k","m">>
      [] form = "justgroupedkm" -> <<"j","u","s","t"," ">> \o Grouped(n) \o <<" ","k","m">>
      [] form = "onlygrouped" -> <<"o","n","l","y"," ">> \o Grouped(n)

MileageInputs ==
    {[form |-> f, n |-> n, raw |-> MileageText(f, n)] :
        f \in {"just", "only", "bare", "km", "justkm", "onlykm"}, n \in MileageNumbers}
    \cup {[form |-> f, n |-> n, raw |-> MileageText(f, n)] :
        f \in {"grouped", "groupedkm", "justgroupedkm", "onlygrouped"},
        n \in {m \in MileageNumbers : m >= 1000}}
    \cup {[form |-> "sentinel", n |-> 0, raw |-> t] : t \in {NotFoundT, S_Error, <<>>, <<"N","/","A">>}}

NoMileageIn == [form |-> "none", n |-> 0, raw |-> <<>>]

MileageInit ==
    /\ m_pc = "idle"
    /\ m_in = NoMileageIn
    /\ m_out = <<>>

\* a mileage text arrives
MCall ==
    /\ m_pc = "idle"
    /\ \E i \in MileageInputs : m_in' = i
    /\ m_pc' = "called"
    /\ UNCHANGED m_out
    /\ UNCHANGED <<storeVars, batchVars, hybridVars, toolVars, findVars, normVars,
                   parseVars, outputVars, runVars>>

\* interpret_mileage on the text of the page's mileage element
MInterpretMileage ==
    /\ m_pc = "called"
    /\ m_out' = interpret_mileage(m_in.raw)
    /\ m_pc' = "interpreted"
    /\ UNCHANGED m_in
    /\ UNCHANGED <<storeVars, batchVars, hybridVars, toolVars, findVars, normVars,
                   parseVars, outputVars, runVars>>

\* _format_mileage on the digits and commas a mileage pattern matched in
\* the page's text
MFormatMileage ==
    /\ m_pc = "called"
    /\ m_in.form \in {"bare", "grouped"}
    /\ m_out' = format_mileage(m_in.raw)
    /\ m_pc' = "formatted"
    /\ UNCHANGED m_in
    /\ UNCHANGED <<storeVars, batchVars, hybridVars, toolVars, findVars, normVars,
                   parseVars, outputVars, runVars>>

MileageNext ==
    \/ MCall
    \/ MInterpretMileage
    \/ MFormatMileage

\* C22: for N in 1..499, interpret_mileage gives N*1000 grouped with " km"
\* for 'just N', 'only N', 'N' and 'N km'; a grouped value with km and a bare
\* integer of at least 1000 keep their value, rendered grouped with " km".
C22_SmallNumbersAreThousands ==
    m_pc = "interpreted" =>
        /\ (m_in.form \in {"just", "only", "bare", "km"} /\ m_in.n \in 1..499) =>
               m_out = Grouped(m_in.n * 1000) \o <<" ","k","m">>
        /\ (m_in.form = "groupedkm" \/ (m_in.form = "bare" /\ m_in.n >= 1000)) =>
               m_out = Grouped(m_in.n) \o <<" ","k","m">>

C22_Witness ==
    /\ m_pc = "interpreted"
    /\ m_in.raw = <<"o","n","l","y"," ","8","0">>
    /\ m_out = <<"8","0",",","0","0","0"," ","k","m">>

\* C26: for 'just N' or 'only N' with N of at least 500, with or without km
\* and grouping, interpret_mileage gives the input unchanged or N rendered
\* grouped with " km", never another mileage.
C26_ThousandsOnlyBelow500 ==
    (/\ m_pc = "interpreted"
     /\ m_in.form \in {"just", "only", "justkm", "onlykm", "justgroupedkm", "onlygrouped"}
     /\ m_in.n >= 500) =>
        m_out \in {m_in.raw, Grouped(m_in.n) \o <<" ","k","m">>}

-----------------------------------------------------------------------------
(* The field normalizer: _normalize_ad_data and re-processing of its output *)

N_Title == <<" ","T","o","y","o","t","a"," ","A","q","u","a"," ","2","0","1","5"," ">>
N_Location == <<"C","o","l","o","m","b","o">>
N_Url == <<"h","t","t","p","s",":","/","/","i","k","m","a","n",".","l","k","/","e","n","/","a","d","/","t","o","y","o","t","a","-","a","q","u","a","-","2","0","1","5","-","f","o","r","-","s","a","l","e","-","c","o","l","o","m","b","o","-","1">>
N_Price == <<"R","s","."," ","4",",","2","5","0",",","0","0","0">>
N_Mileage == <<"8","0",",","0","0","0"," ","k","m">>
N_Year == <<"2","0","1","5">>

NormAd(price, mileage, year) ==
    [ad_title |-> N_Title, price_lkr |-> price, location |-> N_Location,
     mileage_km |-> mileage, year |-> year, url |-> N_Url]

NormPrices ==
    {N_Price, <<"4","2","5","0","0","0","0",".","5">>, <<"4","2","5","0","0","0","1",".","5">>, <<"N","e","g","o","t","i","a","b","l","e">>, <<"L","K","R"," ","1",",","0","0","0">>, NotFoundT, <<>>,
     <<"R","s","."," ","a","b","c">>, <<"-","0",".","4">>, <<"i","n","f">>, <<"n","a","n">>, <<" ","9","5","0","0","0","0"," ">>, <<"1",",","2",",","3">>}

YearNumbers == (1890..2040) \cup {0, 15, 99999}

YearForms == {"int", "point0", "padded", "fraction"}

YearText(form, n) ==
    CASE form = "int" -> Str(n)
      [] form = "point0" -> Str(n) \o <<".","0">>
      [] form = "padded" -> <<" ">> \o Str(n) \o <<" ">>
      [] form = "fraction" -> Str(n) \o <<".","7">>

YearNoise == {<<"a","b","c">>, <<>>, NotFoundT, <<"2","0","o","4">>, <<"-","2","0","0","4">>, <<"n","a","n">>, <<"I","n","f","i","n","i","t","y">>, <<"2","0","0","4"," ","A","D">>, <<"E","r","r","o","r">>}

\* the raw ads explored: one field varies, the others hold plain values
NormInputs ==
    {[vary |-> "mileage", form |-> i.form, n |-> i.n,
      ad |-> NormAd(N_Price, i.raw, N_Year)] : i \in MileageInputs}
    \cup {[vary |-> "mileage", form |-> "sentinel", n |-> 0,
           ad |-> NormAd(N_Price, S_Timeout, N_Year)]}
    \cup {[vary |-> "year", form |-> f, n |-> n,
           ad |-> NormAd(N_Price, N_Mileage, YearText(f, n))] :
              f \in YearForms, n \in YearNumbers}
    \cup {[vary |-> "year", form |-> "noise", n |-> 0,
           ad |-> NormAd(N_Price, N_Mileage, y)] : y \in YearNoise}
    \cup {[vary |-> "price", form |-> "text", n |-> 0,
           ad |-> NormAd(p, N_Mileage, N_Year)] : p \in NormPrices}
    \cup {[vary |-> "keys", form |-> "missing", n |-> 0,
           ad |-> [ad_title |-> N_Title, url |-> N_Url]]}

NoNormIn == [vary |-> "none", form |-> "none", n |-> 0, ad |-> NormAd(N_Price, N_Mileage, N_Year)]

NoNormOut == [year |-> <<>>, once |-> <<>>, twice |-> <<>>]

NormInit ==
    /\ r_pc = "idle"
    /\ r_in = NoNormIn
    /\ r_out = NoNormOut

\* a raw ad reaches _normalize_ad_data
RCall ==
    /\ r_pc = "idle"
    /\ \E i \in NormInputs : r_in' = i
    /\ r_pc' = "called"
    /\ UNCHANGED r_out
    /\ UNCHANGED <<storeVars, batchVars, hybridVars, toolVars, findVars, mileageVars,
                   parseVars, outputVars, runVars>>

\* _normalize_ad_data returns the normalized ad
RNormalize ==
    /\ r_pc = "called"
    /\ ~NormalizeRaises(r_in.ad)
    /\ r_out' = [r_out EXCEPT !.year = NormalizeYear(DictGet(r_in.ad, "year", NotFoundT)),
                              !.once = NormalizeAdData(r_in.ad)]
    /\ r_pc' = "once"
    /\ UNCHANGED r_in
    /\ UNCHANGED <<storeVars, batchVars, hybridVars, toolVars, findVars, mileageVars,
                   parseVars, outputVars, runVars>>

\* _normalize_ad_data raises what _normalize_year raised
RNormalizeRaises ==
    /\ r_pc = "called"
    /\ NormalizeRaises(r_in.ad)
    /\ r_out' = [r_out EXCEPT !.year = NormalizeYear(DictGet(r_in.ad, "year", NotFoundT)),
                              !.once = OverflowError]
    /\ r_pc' = "raised"
    /\ UNCHANGED r_in
    /\ UNCHANGED <<storeVars, batchVars, hybridVars, toolVars, findVars, mileageVars,
                   parseVars, outputVars, runVars>>

\* the normalized ad is processed again
RNormalizeAgain ==
    /\ r_pc = "once"
    /\ ~NormalizeRaises(r_out.once)
    /\ r_out' = [r_out EXCEPT !.twice = NormalizeAdData(r_out.once)]
    /\ r_pc' = "twice"
    /\ UNCHANGED r_in
    /\ UNCHANGED <<storeVars, batchVars, hybridVars, toolVars, findVars, mileageVars,
                   parseVars, outputVars, runVars>>

NormNext ==
    \/ RCall
    \/ RNormalize
    \/ RNormalizeRaises
    \/ RNormalizeAgain

\* C23: the crew's normalizer follows the mileage heuristic: 'only N', 'N'
\* and 'N km' with N below 500 become N*1000 grouped with " km", and a
\* sentinel passes through unchanged.
C23_NormalizerFollowsHeuristic ==
    (r_pc = "once" /\ r_in.vary = "mileage") =>
        /\ (r_in.form \in {"only", "bare", "km"} /\ r_in.n \in 1..499) =>
               r_out.once.mileage_km = Grouped(r_in.n * 1000) \o <<" ","k","m">>
        /\ (r_in.form = "sentinel" /\ r_in.ad.mileage_km # <<>>) =>
               r_out.once.mileage_km = r_in.ad.mileage_km

\* C24: _normalize_year returns the integer's rendering when the input
\* parses to an integer within 1900..2030 and 'Not Found' otherwise, so the
\* year of a normalized ad is such a year or 'Not Found'.
C24_YearInRangeOrNotFound ==
    (r_pc \in {"once", "raised"} /\ r_in.vary = "year") =>
        /\ (r_in.form \in {"int", "point0", "padded"} /\ r_in.n \in 1900..2030) =>
               r_out.year = Str(r_in.n)
        /\ (r_in.form \in {"int", "point0", "padded"} /\ r_in.n \notin 1900..2030) =>
               r_out.year = NotFoundT
        /\ r_in.form = "noise" => r_out.year = NotFoundT
        /\ r_out.year \in {Str(y) : y \in 1900..2030} \cup {NotFoundT}
        /\ r_pc = "once" => r_out.once.year = r_out.year

\* C30: normalizing a normalized ad changes nothing.
C30_NormalizeIdempotent ==
    r_pc = "twice" => r_out.twice = r_out.once

C30_Witness ==
    /\ r_pc = "twice"
    /\ r_in.vary = "price"
    /\ r_in.ad.price_lkr = <<"R","s","."," ","4",",","2","5","0",",","0","0","0">>
    /\ r_out.once.price_lkr = <<"4",",","2","5","0",",","0","0","0">>
    /\ r_out.once.ad_title = <<"T","o","y","o","t","a"," ","A","q","u","a"," ","2","0","1","5">>
    /\ r_out.twice = r_out.once

-----------------------------------------------------------------------------
(* _parse_urls of the three extractors *)

MaxParseLines == 2

\* characters outside ASCII, each one element of a text: the bullet, and
\* the three characters its UTF-8 bytes give when read as cp1252
C_bullet == "bullet"
C_acirc == "a-circumflex"
C_euro == "euro"
C_cent == "cent"

\* str.split('\n'): the pieces between the newlines
SplitLines(s) ==
    LET newlines == {k \in 1..Len(s) : s[k] = "\n"}
        nth(i) == CHOOSE k \in newlines : Cardinality({j \in newlines : j < k}) = i - 1
        first(i) == IF i = 1 THEN 1 ELSE nth(i - 1) + 1
        last(i) == IF i = Cardinality(newlines) + 1 THEN Len(s) ELSE nth(i) - 1
    IN  [i \in 1..(Cardinality(newlines) + 1) |-> SubSeq(s, first(i), last(i))]

\* the length of the run of non-blank characters from position k
RECURSIVE NonWsRun(_, _)
NonWsRun(s, k) == IF k <= Len(s) /\ s[k] \notin Whitespace THEN 1 + NonWsRun(s, k + 1) ELSE 0

\* the length of the match of https?://[^\s]+ at position k, 0 when none
UrlMatchAt(s, k) ==
    LET scheme == IF StartsWithAt(s, k, <<"h","t","t","p","s",":","/","/">>) THEN 8
                  ELSE IF StartsWithAt(s, k, <<"h","t","t","p",":","/","/">>) THEN 7 ELSE 0
        rest == NonWsRun(s, k + scheme)
    IN  IF scheme > 0 /\ rest > 0 THEN scheme + rest ELSE 0

\* re.findall(r'https?://[^\s]+', line)
RECURSIVE FindAllUrls(_, _)
FindAllUrls(line, k) ==
    IF k > Len(line) THEN <<>>
    ELSE IF UrlMatchAt(line, k) > 0
         THEN <<SubSeq(line, k, k + UrlMatchAt(line, k) - 1)>>
              \o FindAllUrls(line, k + UrlMatchAt(line, k))
         ELSE FindAllUrls(line, k + 1)

\* "Remove duplicates while preserving order"
UniqueUrls(url_list) ==
    LET F[k \in 0..Len(url_list)] ==
            IF k = 0 THEN <<>>
            ELSE LET unique_urls == F[k - 1]
                 IN  IF InSeq(url_list[k], unique_urls) THEN unique_urls
                     ELSE Append(unique_urls, url_list[k])
    IN  F[Len(url_list)]

\* the loop body: the urls one line adds to url_list; bullet is the third
\* prefix the implementation tests for
LineUrls(raw_line, bullet) ==
    LET stripped == Strip(raw_line)
        line == IF StartsWithAt(stripped, 1, <<"-"," ">>) \/ StartsWithAt(stripped, 1, <<"*"," ">>)
                   \/ StartsWithAt(stripped, 1, bullet)
                THEN SubSeq(stripped, 3, Len(stripped))
                ELSE stripped
    IN  FindAllUrls(line, 1)
        \o (IF StartsWithAt(line, 1, <<"h","t","t","p">>) THEN <<line>> ELSE <<>>)

\* the text format of _parse_urls
ParseUrlsText(urls_input, bullet) ==
    LET lines == SplitLines(Strip(urls_input))
        F[k \in 0..Len(lines)] ==
            IF k = 0 THEN <<>> ELSE F[k - 1] \o LineUrls(lines[k], bullet)
    IN  UniqueUrls(F[Len(lines)])

sync_bullet == <<C_bullet, " ">>
mojibake_bullet == <<C_acirc, C_euro, C_cent, " ">>

\* SynchronousAdExtractor._parse_urls
SyncParseUrls(urls_input) == ParseUrlsText(urls_input, sync_bullet)

\* SimpleAdDetailsExtractor._parse_urls
SimpleParseUrls(urls_input) == ParseUrlsText(urls_input, mojibake_bullet)

\* the elements of a JSON array of strings without escapes:  "..." , "..."
RECURSIVE JsonElements(_)
JsonElements(s) ==
    LET quotes == {k \in 2..Len(s) : s[k] = "\""}
        q == CHOOSE k \in quotes : \A j \in quotes : k <= j
        elem == SubSeq(s, 2, q - 1)
        rest == LStrip(SubSeq(s, q + 1, Len(s)))
        more == JsonElements(LStrip(Tail(rest)))
    IN  IF s = <<>> \/ Head(s) # "\"" \/ quotes = {} THEN [ok |-> FALSE, items |-> <<>>]
        ELSE IF \E k \in 1..Len(elem) : elem[k] \in {"\n", "\t", "\\"}
             THEN [ok |-> FALSE, items |-> <<>>]
        ELSE IF rest = <<>> THEN [ok |-> TRUE, items |-> <<elem>>]
        ELSE IF Head(rest) # "," THEN [ok |-> FALSE, items |-> <<>>]
        ELSE [ok |-> more.ok, items |-> <<elem>> \o more.items]

\* json.loads of a text that starts with '[': an array of strings, or
\* JSONDecodeError (ok = FALSE)
JsonLoads(text) ==
    LET t == Strip(text)
        body == Strip(SubSeq(t, 2, Len(t) - 1))
    IN  IF Len(t) < 2 \/ t[Len(t)] # "]" THEN [ok |-> FALSE, items |-> <<>>]
        ELSE IF body = <<>> THEN [ok |-> TRUE, items |-> <<>>]
        ELSE JsonElements(body)

\* AIFriendlyAdDetailsExtractor._parse_urls: a JSON array first, the text
\* format when the input is none
AIParseUrls(urls_input) ==
    LET startsWithHttp(u) == StartsWithAt(u, 1, <<"h","t","t","p">>)
    IN  IF StartsWithAt(Strip(urls_input), 1, <<"[">>) /\ JsonLoads(urls_input).ok
        THEN SelectInOrder(JsonLoads(urls_input).items, startsWithHttp)
        ELSE ParseUrlsText(urls_input, mojibake_bullet)

\* the lines and texts explored
L_url1 == <<"h","t","t","p","s",":","/","/","i","k","m","a","n",".","l","k","/","e","n","/","a","d","/","t","e","s","t","-","1">>
L_url2 == <<"h","t","t","p",":","/","/","r","i","y","a","s","e","w","a","n","a",".","c","o","m","/","a","d","/","t","e","s","t","-","2">>

ParseLines ==
    {L_url1,
     <<"-"," ">> \o L_url1,
     <<"*"," ">> \o L_url2,
     sync_bullet \o L_url1,
     mojibake_bullet \o L_url2,
     <<" "," ">> \o L_url2 \o <<" "," ">>,
     L_url1 \o <<" ","(","f","o","r"," ","s","a","l","e",")">>,
     <<"s","e","e"," ">> \o L_url1 \o <<" ","a","n","d"," ">> \o L_url2,
     <<"n","o"," ","u","r","l"," ","h","e","r","e">>,
     <<"h","t","t","p","f","o","o">>,
     <<>>}

JsonTexts ==
    {<<"[","\"">> \o L_url1 \o <<"\"",","," ","\"">> \o L_url2 \o <<"\"","]">>,
     <<"[","\"">> \o L_url1 \o <<"\"",",","\"">> \o L_url1 \o <<"\"","]">>,
     <<"[","\"">> \o L_url1 \o <<" ","(","f","o","r"," ","s","a","l","e",")","\"",","," ","\"","f","t","p",":","/","/","x",".","l","k","/","a","\"","]">>,
     <<"[","]">>,
     <<"[","\"">> \o L_url1 \o <<"\"">>,
     <<"[">> \o L_url1 \o <<"]">>}

ParseTexts ==
    {l : l \in ParseLines}
    \cup (IF MaxParseLines >= 2
          THEN {a \o <<"\n">> \o b : a \in ParseLines, b \in ParseLines} ELSE {})
    \cup (IF MaxParseLines >= 3
          THEN {a \o <<"\n">> \o b \o <<"\n">> \o L_url2 : a \in ParseLines, b \in ParseLines}
          ELSE {})
    \cup JsonTexts

ParseInit ==
    /\ p_pc = "idle"
    /\ p_in = <<>>
    /\ p_out = [by |-> "none", urls |-> <<>>]

\* a text of urls is given to an extractor
PCall ==
    /\ p_pc = "idle"
    /\ \E t \in ParseTexts : p_in' = t
    /\ p_pc' = "called"
    /\ UNCHANGED p_out
    /\ UNCHANGED <<storeVars, batchVars, hybridVars, toolVars, findVars, mileageVars,
                   normVars, outputVars, runVars>>

PSync ==
    /\ p_pc = "called"
    /\ p_out' = [by |-> "sync", urls |-> SyncParseUrls(p_in)]
    /\ p_pc' = "done"
    /\ UNCHANGED p_in
    /\ UNCHANGED <<storeVars, batchVars, hybridVars, toolVars, findVars, mileageVars,
                   normVars, outputVars, runVars>>

PSimple ==
    /\ p_pc = "called"
    /\ p_out' = [by |-> "simple", urls |-> SimpleParseUrls(p_in)]
    /\ p_pc' = "done"
    /\ UNCHANGED p_in
    /\ UNCHANGED <<storeVars, batchVars, hybridVars, toolVars, findVars, mileageVars,
                   normVars, outputVars, runVars>>

PAI ==
    /\ p_pc = "called"
    /\ p_out' = [by |-> "ai", urls |-> AIParseUrls(p_in)]
    /\ p_pc' = "done"
    /\ UNCHANGED p_in
    /\ UNCHANGED <<storeVars, batchVars, hybridVars, toolVars, findVars, mileageVars,
                   normVars, outputVars, runVars>>

ParseNext ==
    \/ PCall
    \/ PSync
    \/ PSimple
    \/ PAI

\* an absolute http(s) url without whitespace
IsAbsoluteUrl(u) ==
    /\ StartsWithAt(u, 1, <<"h","t","t","p",":","/","/">>) \/ StartsWithAt(u, 1, <<"h","t","t","p","s",":","/","/">>)
    /\ \A k \in 1..Len(u) : u[k] \notin Whitespace
    /\ UrlMatchAt(u, 1) = Len(u)

\* C25: every element of the list _parse_urls returns is an absolute
\* http(s) url without whitespace, and no url appears twice.
C25_ParsedUrlsAreUrls ==
    p_pc = "done" =>
        /\ \A i \in 1..Len(p_out.urls) : IsAbsoluteUrl(p_out.urls[i])
        /\ \A i, j \in 1..Len(p_out.urls) : p_out.urls[i] = p_out.urls[j] => i = j

-----------------------------------------------------------------------------
(* _extract_task_outputs: the crew's task outputs sorted into a dictionary *)

MaxVehicleKeys == 3

\* a key that the dictionary does not hold
Absent == <<"absent">>

\* _is_ads_json_data
IsAdsJsonData(text) ==
    LET text_lower == Lower(text)
    IN  /\ Contains(<<"[">>, text) /\ Contains(<<"]">>, text)
        /\ \/ Contains(<<"a","d"," ","t","i","t","l","e">>, text_lower)
           \/ Contains(<<"p","r","i","c","e">>, text_lower)
           \/ Contains(<<"u","r","l">>, text_lower)

\* the number of keys of outputs that contain 'vehicle'
VehicleKeys(outputs) == Cardinality({n \in 1..MaxVehicleKeys : outputs.ads[n] # Absent})

\* one iteration of the loop over the task outputs (i counts from 0)
TaskOutputStep(outputs, i, output_text) ==
    IF i = 0 \/ Contains(<<"#">>, output_text) \/ Contains(<<"c","o","m","p","a","r","i","s","o","n">>, Lower(output_text))
    THEN [outputs EXCEPT !.comparison = output_text]
    ELSE IF IsAdsJsonData(output_text) /\ VehicleKeys(outputs) < MaxVehicleKeys
         THEN [outputs EXCEPT !.ads[VehicleKeys(outputs) + 1] = output_text]
         ELSE outputs

NoOutputs == [comparison |-> Absent, ads |-> [n \in 1..MaxVehicleKeys |-> Absent]]

\* _extract_task_outputs for a CrewOutput with these task outputs
ExtractTaskOutputs(task_outputs) ==
    LET F[k \in 0..Len(task_outputs)] ==
            IF k = 0 THEN NoOutputs
            ELSE TaskOutputStep(F[k - 1], k - 1, task_outputs[k])
    IN  F[Len(task_outputs)]

\* the outputs of the tasks of _create_ad_tasks
O_Urls1 == <<"-"," ","h","t","t","p","s",":","/","/","i","k","m","a","n",".","l","k","/","e","n","/","a","d","/","t","o","y","o","t","a","-","a","q","u","a","-","1">>
O_Urls2 == <<"-"," ","h","t","t","p","s",":","/","/","i","k","m","a","n",".","l","k","/","e","n","/","a","d","/","h","o","n","d","a","-","f","i","t","-","2">>
O_UrlsJson2 == <<"{","\"","s","t","a","t","u","s","\"",":"," ","\"","s","u","c","c","e","s","s","\"",","," ","\"","u","r","l","s","\"",":"," ","[","\"","h","t","t","p","s",":","/","/","i","k","m","a","n",".","l","k","/","e","n","/","a","d","/","h","o","n","d","a","-","f","i","t","-","2","\"","]","}">>
O_Ads1 == <<"[","{","\"","A","d"," ","T","i","t","l","e","\"",":"," ","\"","T","o","y","o","t","a"," ","A","q","u","a"," ","2","0","1","5","\"",","," ","\"","P","r","i","c","e"," ","(","i","n"," ","L","K","R",")","\"",":"," ","\"","4",",","2","5","0",",","0","0","0","\"",","," ","\"","U","R","L","\"",":"," ","\"","h","t","t","p","s",":","/","/","i","k","m","a","n",".","l","k","/","e","n","/","a","d","/","t","o","y","o","t","a","-","a","q","u","a","-","1","\"","}","]">>
O_Ads2 == <<"[","{","\"","A","d"," ","T","i","t","l","e","\"",":"," ","\"","H","o","n","d","a"," ","F","i","t"," ","2","0","1","4","\"",","," ","\"","P","r","i","c","e"," ","(","i","n"," ","L","K","R",")","\"",":"," ","\"","3",",","9","0","0",",","0","0","0","\"",","," ","\"","U","R","L","\"",":"," ","\"","h","t","t","p","s",":","/","/","i","k","m","a","n",".","l","k","/","e","n","/","a","d","/","h","o","n","d","a","-","f","i","t","-","2","\"","}","]">>
O_None1 == <<"N","o"," ","a","d","s"," ","f","o","u","n","d"," ","f","o","r"," ","t","h","e"," ","T","o","y","o","t","a"," ","A","q","u","a",".">>
O_None2 == <<"N","o"," ","a","d","s"," ","f","o","u","n","d"," ","f","o","r"," ","t","h","e"," ","H","o","n","d","a"," ","F","i","t",".">>
O_UrlsJson1 == <<"{","\"","s","t","a","t","u","s","\"",":"," ","\"","s","u","c","c","e","s","s","\"",","," ","\"","u","r","l","s","\"",":"," ","[","\"","h","t","t","p","s",":","/","/","i","k","m","a","n",".","l","k","/","e","n","/","a","d","/","t","o","y","o","t","a","-","a","q","u","a","-","1","\"","]","}">>
O_Hash2 == <<"[","{","\"","A","d"," ","T","i","t","l","e","\"",":"," ","\"","H","o","n","d","a"," ","F","i","t"," ","#","2"," ","2","0","1","4","\"",","," ","\"","U","R","L","\"",":"," ","\"","h","t","t","p","s",":","/","/","i","k","m","a","n",".","l","k","/","e","n","/","a","d","/","h","o","n","d","a","-","f","i","t","-","2","\"","}","]">>
O_Empty == <<"[","]">>
O_Hash1 == <<"[","{","\"","A","d"," ","T","i","t","l","e","\"",":"," ","\"","T","o","y","o","t","a"," ","A","q","u","a"," ","#","1"," ","2","0","1","5","\"",","," ","\"","P","r","i","c","e"," ","(","i","n"," ","L","K","R",")","\"",":"," ","\"","4",",","2","5","0",",","0","0","0","\"",","," ","\"","U","R","L","\"",":"," ","\"","h","t","t","p","s",":","/","/","i","k","m","a","n",".","l","k","/","e","n","/","a","d","/","t","o","y","o","t","a","-","a","q","u","a","-","1","\"","}","]">>
O_Comparison1 == <<"F","o","r"," ","c","o","m","p","a","r","i","s","o","n",":"," ","[","{","\"","A","d"," ","T","i","t","l","e","\"",":"," ","\"","T","o","y","o","t","a"," ","A","q","u","a"," ","2","0","1","5","\"",","," ","\"","U","R","L","\"",":"," ","\"","h","t","t","p","s",":","/","/","i","k","m","a","n",".","l","k","/","e","n","/","a","d","/","t","o","y","o","t","a","-","a","q","u","a","-","1","\"","}","]">>
O_Prose1 == <<"I"," ","c","o","u","l","d"," ","n","o","t"," ","o","p","e","n"," ","t","h","e"," ","p","a","g","e","s"," ","o","f"," ","t","h","e"," ","T","o","y","o","t","a"," ","A","q","u","a",".">>
O_Prose2 == <<"I"," ","c","o","u","l","d"," ","n","o","t"," ","o","p","e","n"," ","t","h","e"," ","p","a","g","e","s"," ","o","f"," ","t","h","e"," ","H","o","n","d","a"," ","F","i","t",".">>

FindOutputs1 == {O_Urls1, O_None1, O_UrlsJson1}
FindOutputs2 == {O_Urls2, O_None2, O_UrlsJson2}
ExtractOutputs1 == {O_Ads1, O_Empty, O_Hash1, O_Comparison1, O_Prose1}
ExtractOutputs2 == {O_Ads2, O_Empty, O_Hash2, O_Prose2}

TaskOutputLists ==
    {<<f1, f2, e1, e2>> : f1 \in FindOutputs1, f2 \in FindOutputs2,
                          e1 \in ExtractOutputs1, e2 \in ExtractOutputs2}

OutputInit ==
    /\ o_pc = "idle"
    /\ o_in = <<>>
    /\ o_out = NoOutputs

\* the crew has run its four tasks
OCall ==
    /\ o_pc = "idle"
    /\ \E t \in TaskOutputLists : o_in' = t
    /\ o_pc' = "called"
    /\ UNCHANGED o_out
    /\ UNCHANGED <<storeVars, batchVars, hybridVars, toolVars, findVars, mileageVars,
                   normVars, parseVars, runVars>>

OExtractTaskOutputs ==
    /\ o_pc = "called"
    /\ o_out' = ExtractTaskOutputs(o_in)
    /\ o_pc' = "done"
    /\ UNCHANGED o_in
    /\ UNCHANGED <<storeVars, batchVars, hybridVars, toolVars, findVars, mileageVars,
                   normVars, parseVars, runVars>>

OutputNext ==
    \/ OCall
    \/ OExtractTaskOutputs

\* C27: for task outputs [find v1, find v2, extract v1, extract v2],
\* vehicle1_ads is nothing but the output of extract v1 and vehicle2_ads
\* nothing but the output of extract v2, whatever extract v1 gave.
C27_AdsGoToTheirVehicle ==
    o_pc = "done" =>
        /\ o_out.ads[1] \in {Absent, o_in[3]}
        /\ o_out.ads[2] \in {Absent, o_in[4]}

-----------------------------------------------------------------------------
(* Analysis runs: _parse_crew_result_with_comparison over one database *)

MaxAnalysisRuns == 2

R_Url1 == <<"h","t","t","p","s",":","/","/","x",".","l","k","/","a","d","/","1">>
R_Url2 == <<"h","t","t","p","s",":","/","/","x",".","l","k","/","a","d","/","2">>
R_TimedOut == <<"t","i","m","e","d"," ","o","u","t">>

\* extract_ad_details_sync on a page that answers: the record returned
FetchedRecord(title, url) ==
    [ad_title |-> title, price_lkr |-> N_Price, location |-> N_Location,
     mileage_km |-> N_Mileage, year |-> N_Year, url |-> url]

\* extract_ad_details_sync on a RequestException e: the record returned
FetchErrorRecord(e, url) ==
    [ad_title |-> S_ErrorColon \o e, price_lkr |-> S_Error, location |-> S_Error,
     mileage_km |-> S_Error, year |-> S_Error, url |-> url]

\* parsed_results of one run: what the two extraction tasks handed over.  A
\* url is fetched or not, independently in every run.
RunAds1 == {<<>>, <<FetchedRecord(T_AquaG, R_Url1)>>, <<FetchErrorRecord(R_TimedOut, R_Url1)>>}
RunAds2 == {<<>>, <<FetchedRecord(T_FitGP, R_Url2)>>, <<FetchErrorRecord(R_TimedOut, R_Url2)>>}

NoRunOut == [analysis_session_id |-> 0, vehicle1_ads |-> <<>>, vehicle2_ads |-> <<>>,
             response1 |-> <<>>, response2 |-> <<>>]

RunInit ==
    /\ d_pc = "idle"
    /\ d_in = [vehicle1_ads |-> <<>>, vehicle2_ads |-> <<>>]
    /\ d_out = NoRunOut
    /\ d_table = {}
    /\ d_runs = 0

\* the crew of one analysis (vehicle1 Aqua, vehicle2 Fit) has finished and
\* _extract_task_outputs has sorted its outputs
DCall ==
    /\ d_pc \in {"idle", "done"}
    /\ d_runs < MaxAnalysisRuns
    /\ \E a1 \in RunAds1, a2 \in RunAds2 :
         d_in' = [vehicle1_ads |-> a1, vehicle2_ads |-> a2]
    /\ d_out' = NoRunOut
    /\ d_pc' = "called"
    /\ UNCHANGED <<d_table, d_runs>>
    /\ UNCHANGED <<storeVars, batchVars, hybridVars, toolVars, findVars, mileageVars,
                   normVars, parseVars, outputVars>>

\* uuid4() gives an identifier no earlier run had; then the two lists are
\* validated and normalized
DParse ==
    /\ d_pc = "called"
    /\ d_runs' = d_runs + 1
    /\ d_out' = [d_out EXCEPT !.analysis_session_id = d_runs + 1,
                              !.vehicle1_ads = ParseAndValidateAds(d_in.vehicle1_ads),
                              !.vehicle2_ads = ParseAndValidateAds(d_in.vehicle2_ads)]
    /\ d_pc' = "parsed"
    /\ UNCHANGED <<d_in, d_table>>
    /\ UNCHANGED <<storeVars, batchVars, hybridVars, toolVars, findVars, mileageVars,
                   normVars, parseVars, outputVars>>

\* _store_ads_in_database_safe(vehicle1_ads + vehicle2_ads, analysis_session_id)
DStore ==
    /\ d_pc = "parsed"
    /\ d_table' = StoreLoop(d_out.vehicle1_ads \o d_out.vehicle2_ads, d_table,
                            Cardinality(d_table) + 1, d_out.analysis_session_id,
                            V_Aqua, V_Fit)
    /\ d_pc' = "stored"
    /\ UNCHANGED <<d_in, d_out, d_runs>>
    /\ UNCHANGED <<storeVars, batchVars, hybridVars, toolVars, findVars, mileageVars,
                   normVars, parseVars, outputVars>>

\* the response: both lists in the API format, tagged with the run's session
\* id and with self.vehicle1 / self.vehicle2
DRespond ==
    /\ d_pc = "stored"
    /\ d_out' = [d_out EXCEPT
                    !.response1 = AddSessionDataToAds(
                        ConvertToAdDetailsFormat(d_out.vehicle1_ads),
                        d_out.analysis_session_id, V_Aqua),
                    !.response2 = AddSessionDataToAds(
                        ConvertToAdDetailsFormat(d_out.vehicle2_ads),
                        d_out.analysis_session_id, V_Fit)]
    /\ d_pc' = "done"
    /\ UNCHANGED <<d_in, d_table, d_runs>>
    /\ UNCHANGED <<storeVars, batchVars, hybridVars, toolVars, findVars, mileageVars,
                   normVars, parseVars, outputVars>>

RunNext ==
    \/ DCall
    \/ DParse
    \/ DStore
    \/ DRespond

\* the ads of a run's response
ResponseAds ==
    {d_out.response1[k] : k \in DOMAIN d_out.response1}
        \cup {d_out.response2[k] : k \in DOMAIN d_out.response2}

\* C28: every ad of a run's response, tagged with session S and vehicle V, is
\* among the rows of get_ads_by_session_id(S) and among the rows of
\* get_ads_by_vehicle_and_session(V, S), whether or not an earlier run had
\* stored its link.
C28_ResponseAdsRetrievable ==
    d_pc = "done" =>
        \A ad \in ResponseAds :
            /\ \E r \in GetAdsBySessionId(d_table, ad.analysis_session_id) :
                    r.link = ad.link
            /\ \E r \in GetAdsByVehicleAndSession(d_table, ad.vehicle_name,
                                                  ad.analysis_session_id) :
                    r.link = ad.link

\* a title that carries the error tag of a failed fetch
ErrorTitle(title) ==
    Len(title) >= Len(S_ErrorColon) /\ SubSeq(title, 1, Len(S_ErrorColon)) = S_ErrorColon

\* C29: when a run has extracted a url successfully, the row stored under
\* that link afterwards is not the error-tagged record of an earlier run.
C29_ErrorRecordNeverBlocks ==
    d_pc = "done" =>
        \A ad \in ResponseAds :
            ~ErrorTitle(ad.title) =>
                \A r \in GetExistingAdByLink(d_table, ad.link) : ~ErrorTitle(r.title)

Init ==
    /\ StoreInit
    /\ BatchInit
    /\ HybridInit
    /\ SimpleInit
    /\ PipeInit
    /\ EngineInit
    /\ ScorerInit
    /\ ClassInit
    /\ FindInit
    /\ MileageInit
    /\ NormInit
    /\ ParseInit
    /\ OutputInit
    /\ RunInit

Next == StoreNext

\* the deduplicating store with concurrent crew instances
Spec == Init /\ [][Next]_vars

\* the batch runners
SpecBatch == Init /\ [][BatchNext]_vars

\* the extractor's modes
SpecHybrid == Init /\ [][HybridNext]_vars

\* the simple extractor
SpecSimple == Init /\ [][SimpleNext]_vars

\* the crew's handling of extracted records
SpecPipe == Init /\ [][PipeNext]_vars

\* the extraction engines
SpecEngine == Init /\ [][EngineNext]_vars

\* the record scorers
SpecScorer == Init /\ [][ScorerNext]_vars

\* the sale classifiers
SpecClass == Init /\ [][ClassNext]_vars

\* discovery of ad urls
SpecFind == Init /\ [][FindNext]_vars

\* the mileage heuristic
SpecMileage == Init /\ [][MileageNext]_vars

\* the field normalizer
SpecNorm == Init /\ [][NormNext]_vars

\* the url parsers
SpecParse == Init /\ [][ParseNext]_vars

\* the crew's task outputs
SpecOutput == Init /\ [][OutputNext]_vars

\* analysis runs over one database
SpecRun == Init /\ [][RunNext]_vars

====
